---------------------------- MODULE Spec2Model ----------------------------
(***************************************************************************)
(* Cleveland Sound Hothouse pedal: the dispatcher (HothousePedal), the     *)
(* hardware layer of deploy.cpp, ParameterSmoother and the eight effects.  *)
(*                                                                         *)
(* The C++ type float is IEEE-754 binary32.  A float is modelled as the    *)
(* record [s, m, e] standing for (-1)^s * m * 2^e, with 2^23 <= m < 2^24   *)
(* for a normal number, m < 2^23 and e = -149 for a subnormal one and      *)
(* m = 0, e = 0 for a zero.  Every arithmetic operation rounds its exact   *)
(* result to nearest, ties to even, once, as the unfused evaluation of a   *)
(* C++ float expression does.  Infinities and NaN are not represented: the *)
(* inputs are kept in the finite range.                                    *)
(***************************************************************************)
EXTENDS Integers, Sequences, FiniteSets, TLC

(***************************************************************************)
(* binary32 arithmetic                                                     *)
(***************************************************************************)
Pow2(n) == 2^n

\* FLT_MANT_DIG: the significand of a binary32 has 24 bits
MantBits == 24

\* the exponent of the least significant bit of a subnormal binary32
EMin == -149

Max(a, b) == IF a >= b THEN a ELSE b

Min(a, b) == IF a <= b THEN a ELSE b

\* the element of a one-element set; TheOne({ F(v) : v \in {x} }) is F(x) with
\* x computed first, as a statement sequence computes a local before its use
TheOne(S) == CHOOSE v \in S : TRUE

\* number of significant bits of M, 0 <= M < 2^30
BitLen(M) == CHOOSE k \in 0..30 : M < Pow2(k) /\ (k = 0 \/ M >= Pow2(k - 1))

Flt(s, m, e) == [s |-> s, m |-> m, e |-> e]

FZero(s) == Flt(s, 0, 0)

\* FRound, with q1 the significand kept after dropping sh bits
FRound_Pack(s, E, q1, sh) ==
  IF q1 = 0 THEN FZero(s)
  ELSE IF q1 = Pow2(MantBits) THEN Flt(s, Pow2(MantBits - 1), E + sh + 1)
  ELSE Flt(s, q1, E + sh)

\* FRound, dropping sh bits: quotient q, remainder r, half == 2^(sh-1)
FRound_Up(s, E, st, q, r, half, sh) ==
  FRound_Pack(s, E,
              IF r > half \/ (r = half /\ st) \/ (r = half /\ ~st /\ q % 2 = 1)
              THEN q + 1 ELSE q,
              sh)

\* FRound of M with L bits, dropping sh bits (appending -sh zero bits)
FRound_Shift(s, M, E, st, L, sh) ==
  IF sh <= 0 THEN Flt(s, M * Pow2(-sh), E + sh)
  ELSE IF sh > L THEN FZero(s)
  ELSE FRound_Up(s, E, st, M \div Pow2(sh), M % Pow2(sh), Pow2(sh - 1), sh)

\* FRound of M # 0 with L bits
FRound_Sized(s, M, E, st, L) == FRound_Shift(s, M, E, st, L, Max(L - MantBits, EMin - E))

\* The binary32 nearest to (-1)^s * (M + f) * 2^E, where 0 <= f < 1 and st tells
\* whether f > 0 (the sticky bit); ties go to the even significand.
FRound(s, M, E, st) == IF M = 0 THEN FZero(s) ELSE FRound_Sized(s, M, E, st, BitLen(M))

\* (float)n for an int n
IntToFloat(n) == FRound(IF n >= 0 THEN 0 ELSE 1, IF n >= 0 THEN n ELSE -n, 0, FALSE)

FNeg(a) == Flt(1 - a.s, a.m, a.e)

FAbs(a) == Flt(0, a.m, a.e)

\* |a| < |b|
MagLt(a, b) ==
  IF b.m = 0 THEN FALSE
  ELSE IF a.m = 0 THEN TRUE
  ELSE a.e < b.e \/ (a.e = b.e /\ a.m < b.m)

\* a < b
FLt(a, b) ==
  IF a.m = 0 /\ b.m = 0 THEN FALSE
  ELSE IF a.s # b.s THEN a.s = 1
  ELSE IF a.s = 0 THEN MagLt(a, b) ELSE MagLt(b, a)

\* a == b (the two zeros are equal)
FEq(a, b) == (a.m = 0 /\ b.m = 0) \/ a = b

FLe(a, b) == FLt(a, b) \/ FEq(a, b)

FGt(a, b) == FLt(b, a)

FGe(a, b) == FLe(b, a)

\* FMul: the 48-bit product is HI * 2^24 + LO; its sh lowest bits are dropped to
\* keep it below 2^29
FMul_Product(s, E, HI, LO, sh) ==
  FRound(s, HI * Pow2(24 - sh) + (LO \div Pow2(sh)), E + sh, LO % Pow2(sh) # 0)

FMul_High(s, E, HI, LO) == FMul_Product(s, E, HI, LO, Max(BitLen(HI) - 5, 0))

\* FMul from the partial products of the 12-bit halves: hh high * high, mid the
\* two cross products, lof low * low with the low half of mid
FMul_Low(s, E, hh, mid, lof) ==
  FMul_High(s, E, hh + (mid \div 4096) + (lof \div 16777216), lof % 16777216)

FMul_Middle(s, E, hh, mid, ll) == FMul_Low(s, E, hh, mid, ll + (mid % 4096) * 4096)

\* a * b
FMul(a, b) ==
  IF a.m = 0 \/ b.m = 0 THEN FZero((a.s + b.s) % 2)
  ELSE FMul_Middle((a.s + b.s) % 2, a.e + b.e,
                   (a.m \div 4096) * (b.m \div 4096),
                   (a.m \div 4096) * (b.m % 4096) + (a.m % 4096) * (b.m \div 4096),
                   (a.m % 4096) * (b.m % 4096))

\* FAdd: the exact sum is (D + f) * 2^(big.e - 3) with the sign of big, where
\* 0 <= f < 1 and st tells whether f > 0; st is false whenever D < 0
FAdd_Signed(big, small, D, st) ==
  IF D = 0 /\ ~st THEN FZero(0)
  ELSE FRound(IF D < 0 THEN small.s ELSE big.s, IF D < 0 THEN -D ELSE D,
              big.e - 3, D >= 0 /\ st)

\* FAdd with big.m * 8 (A) and small.m * 8 aligned to it (B, st its lost bits)
FAdd_Sum(big, small, A, B, st) ==
  FAdd_Signed(big, small,
              IF big.s = small.s THEN A + B ELSE IF st THEN A - B - 1 ELSE A - B,
              st)

\* FAdd of big and small, big.e - small.e = d >= 0
FAdd_Align(big, small, d) ==
  FAdd_Sum(big, small, big.m * 8,
           IF d <= 3 THEN small.m * Pow2(3 - d)
           ELSE IF d - 3 >= 25 THEN 0
           ELSE small.m \div Pow2(d - 3),
           IF d <= 3 THEN FALSE
           ELSE IF d - 3 >= 25 THEN TRUE
           ELSE small.m % Pow2(d - 3) # 0)

FAdd_Order(big, small) == FAdd_Align(big, small, big.e - small.e)

\* a + b
FAdd(a, b) ==
  IF a.m = 0 /\ b.m = 0 THEN FZero(IF a.s = b.s THEN a.s ELSE 0)
  ELSE IF a.m = 0 THEN b
  ELSE IF b.m = 0 THEN a
  ELSE FAdd_Order(IF a.e >= b.e THEN a ELSE b, IF a.e >= b.e THEN b ELSE a)

\* a - b
FSub(a, b) == FAdd(a, FNeg(b))

\* long division: k more quotient bits of rem / nb appended to q, rem < nb < 2^24
DivStep(q, rem, nb, k) ==
  <<q * Pow2(k) + ((rem * Pow2(k)) \div nb), (rem * Pow2(k)) % nb>>

DivStep3(qr, nb) == DivStep(qr[1], qr[2], nb, 5)

DivStep2(qr, nb) == DivStep3(DivStep(qr[1], qr[2], nb, 7), nb)

DivStep1(qr, nb) == DivStep2(DivStep(qr[1], qr[2], nb, 7), nb)

\* the quotient of na * 2^26 / nb and its remainder, for na < 2 nb
DivLoop(na, nb) == DivStep1(DivStep(na \div nb, na % nb, nb, 7), nb)

\* FDiv from qr, the quotient and remainder of the significands after they
\* were shifted to 24 bits, by sa and sb
FDiv_Quotient(a, b, sa, sb, qr) ==
  FRound((a.s + b.s) % 2, qr[1], (a.e - sa) - (b.e - sb) - 26, qr[2] # 0)

FDiv_Normal(a, b, sa, sb) ==
  FDiv_Quotient(a, b, sa, sb, DivLoop(a.m * Pow2(sa), b.m * Pow2(sb)))

\* a / b, b # 0
FDiv(a, b) ==
  IF a.m = 0 THEN FZero((a.s + b.s) % 2)
  ELSE FDiv_Normal(a, b, MantBits - BitLen(a.m), MantBits - BitLen(b.m))

\* (int)a: truncation toward zero
FloatToInt(a) ==
  LET t == IF a.m = 0 THEN 0
           ELSE IF a.e >= 0 THEN a.m * Pow2(a.e)
           ELSE IF -a.e >= 30 THEN 0
           ELSE a.m \div Pow2(-a.e)
  IN  IF a.s = 1 THEN -t ELSE t

\* the float literal whose decimal value is n / d (n, d < 2^24)
Dec(n, d) == FDiv(IntToFloat(n), IntToFloat(d))

F0 == FZero(0)

F1 == Flt(0, 8388608, -23)

(***************************************************************************)
(* ParameterSmoother (hothouse.h): one-pole ramp of a control value        *)
(***************************************************************************)
\* void setSmoothing(float smoothingMs, float sampleRate)
ParameterSmoother_coefficient(p, samples) ==
  [p EXCEPT !.coefficient = FSub(F1, FDiv(F1, IF FLt(samples, F1) THEN F1 ELSE samples))]

ParameterSmoother_setSmoothing(p, smoothingMs, sampleRate) ==
  ParameterSmoother_coefficient(p, FMul(FDiv(smoothingMs, IntToFloat(1000)), sampleRate))

\* ParameterSmoother(float smoothingMs, float sampleRate, float initialValue)
ParameterSmoother_new(smoothingMs, sampleRate, initialValue) ==
  ParameterSmoother_setSmoothing(
    [currentValue |-> initialValue, targetValue |-> initialValue, coefficient |-> F0],
    smoothingMs, sampleRate)

\* void setTarget(float value)
ParameterSmoother_setTarget(p, value) == [p EXCEPT !.targetValue = value]

\* void setImmediate(float value)
ParameterSmoother_setImmediate(p, value) ==
  [p EXCEPT !.currentValue = value, !.targetValue = value]

\* float process(): the smoother after the call; the value returned is its currentValue
ParameterSmoother_process(p) ==
  [p EXCEPT !.currentValue =
     FAdd(FMul(p.currentValue, p.coefficient),
          FMul(p.targetValue, FSub(F1, p.coefficient)))]

\* float getValue() const
ParameterSmoother_getValue(p) == p.currentValue

(***************************************************************************)
(* <math.h> as the effects use it.  fabsf and floorf are exact.  sinf,     *)
(* log10f and powf belong to the C library, not to this repository: they   *)
(* are modelled by float approximations (sinf within 0.002, log10f and     *)
(* powf within a few units in the last place) that keep their range, their *)
(* sign and the exact values sinf(0) = 0, log10f(1) = 0, powf(10, 0) = 1.  *)
(***************************************************************************)
\* floorf(a)
FFloor(a) ==
  IF a.m = 0 \/ a.e >= 0 THEN a
  ELSE LET t == IF -a.e >= 30 THEN 0 ELSE a.m \div Pow2(-a.e)
           exact == -a.e < 30 /\ t * Pow2(-a.e) = a.m
       IN  IF a.s = 0 THEN IntToFloat(t)
           ELSE IF exact THEN IntToFloat(-t) ELSE IntToFloat(-t - 1)

\* float literals of the sources: each is the binary32 nearest to the decimal
\* written beside it, Dec(n, d) of its digits
K ==
  [
    half    |-> [s |-> 0, m |->  8388608, e |-> -24],  \* 0.5f
    two     |-> [s |-> 0, m |->  8388608, e |-> -22],  \* 2.0f
    c0_05   |-> [s |-> 0, m |-> 13421773, e |-> -28],  \* 0.05f
    c9      |-> [s |-> 0, m |->  9437184, e |-> -20],  \* 9.0f
    c27     |-> [s |-> 0, m |-> 14155776, e |-> -19],  \* 27.0f
    tanh1   |-> [s |-> 0, m |-> 12777360, e |-> -24],  \* 0.76159f
    c0_98   |-> [s |-> 0, m |-> 16441672, e |-> -24],  \* 0.98f
    c0_3    |-> [s |-> 0, m |-> 10066330, e |-> -25],  \* 0.3f
    c0_7    |-> [s |-> 0, m |-> 11744051, e |-> -24],  \* 0.7f
    c0_8    |-> [s |-> 0, m |-> 13421773, e |-> -24],  \* 0.8f
    c0_995  |-> [s |-> 0, m |-> 16693330, e |-> -24],  \* 0.995f
    c99     |-> [s |-> 0, m |-> 12976128, e |-> -17],  \* 99.0f
    c0_85   |-> [s |-> 0, m |-> 14260634, e |-> -24],  \* 0.85f
    c0_69   |-> [s |-> 0, m |-> 11576279, e |-> -24],  \* 0.69f
    c0_6    |-> [s |-> 0, m |-> 10066330, e |-> -24],  \* 0.6f
    c0_1    |-> [s |-> 0, m |-> 13421773, e |-> -27],  \* 0.1f
    c0_15   |-> [s |-> 0, m |-> 10066330, e |-> -26],  \* 0.15f
    c0_4    |-> [s |-> 0, m |-> 13421773, e |-> -25],  \* 0.4f
    c199    |-> [s |-> 0, m |-> 13041664, e |-> -16],  \* 199.0f
    c0_2    |-> [s |-> 0, m |-> 13421773, e |-> -26],  \* 0.2f
    c0_79   |-> [s |-> 0, m |-> 13254001, e |-> -24],  \* 0.79f
    c20     |-> [s |-> 0, m |-> 10485760, e |-> -19],  \* 20.0f
    c4_9    |-> [s |-> 0, m |-> 10276045, e |-> -21],  \* 4.9f
    c10     |-> [s |-> 0, m |-> 10485760, e |-> -20],  \* 10.0f
    c15     |-> [s |-> 0, m |-> 15728640, e |-> -20],  \* 15.0f
    c5      |-> [s |-> 0, m |-> 10485760, e |-> -21],  \* 5.0f
    c1000   |-> [s |-> 0, m |-> 16384000, e |-> -14],  \* 1000.0f
    c19_5   |-> [s |-> 0, m |-> 10223616, e |-> -19],  \* 19.5f
    c0_99   |-> [s |-> 0, m |-> 16609444, e |-> -24],  \* 0.99f
    c0_25   |-> [s |-> 0, m |->  8388608, e |-> -25],  \* 0.25f
    c0_9    |-> [s |-> 0, m |-> 15099494, e |-> -24],  \* 0.9f
    c0_95   |-> [s |-> 0, m |-> 15938355, e |-> -24],  \* 0.95f
    c0_89   |-> [s |-> 0, m |-> 14931722, e |-> -24],  \* 0.89f
    c0_35   |-> [s |-> 0, m |-> 11744051, e |-> -25],  \* 0.35f
    c1_5    |-> [s |-> 0, m |-> 12582912, e |-> -23],  \* 1.5f
    c4      |-> [s |-> 0, m |->  8388608, e |-> -21],  \* 4.0f
    c0_01   |-> [s |-> 0, m |-> 10737418, e |-> -30],  \* 0.01f
    c19     |-> [s |-> 0, m |->  9961472, e |-> -19],  \* 19.0f
    c0_49   |-> [s |-> 0, m |-> 16441672, e |-> -25],  \* 0.49f
    c0_099  |-> [s |-> 0, m |-> 13287555, e |-> -27],  \* 0.099f
    eps     |-> [s |-> 0, m |-> 13743895, e |-> -37],  \* 0.0001f
    c6      |-> [s |-> 0, m |-> 12582912, e |-> -21],  \* 6.0f
    c12     |-> [s |-> 0, m |-> 12582912, e |-> -20],  \* 12.0f
    c16     |-> [s |-> 0, m |->  8388608, e |-> -19],  \* 16.0f
    c3      |-> [s |-> 0, m |-> 12582912, e |-> -22],  \* 3.0f
    c7      |-> [s |-> 0, m |-> 14680064, e |-> -21],  \* 7.0f
    ln2     |-> [s |-> 0, m |-> 11629080, e |-> -24],  \* 0.6931472f
    log10e  |-> [s |-> 0, m |-> 14572505, e |-> -25],  \* 0.4342945f
    log2_10 |-> [s |-> 0, m |-> 13933176, e |-> -22],  \* 3.321928f
    sqrt2   |-> [s |-> 0, m |-> 11863287, e |-> -23],  \* 1.414214f
    c24     |-> [s |-> 0, m |-> 12582912, e |-> -19],  \* 24.0f
    c120    |-> [s |-> 0, m |-> 15728640, e |-> -17],  \* 120.0f
    c720    |-> [s |-> 0, m |-> 11796480, e |-> -14],  \* 720.0f
    c5040   |-> [s |-> 0, m |-> 10321920, e |-> -11] ]  \* 5040.0f

\* Bhaskara's approximation 16w / (5 - 4w), w = u(1 - u), of sin(pi u), 0 <= u <= 1
SinHalfTurn(w) == FDiv(FMul(K.c16, w), FSub(K.c5, FMul(K.c4, w)))

\* sin(2 pi t) for t in [0, 1), a half turn at a time
SinTurn(t) ==
  IF FLt(t, K.half)
  THEN TheOne({ SinHalfTurn(w) :
                  w \in {FMul(FMul(K.two, t), FSub(F1, FMul(K.two, t)))} })
  ELSE TheOne({ FNeg(SinHalfTurn(w)) :
                  w \in {FMul(FSub(FMul(K.two, t), F1),
                              FSub(F1, FSub(FMul(K.two, t), F1)))} })

\* sinf(2 pi phase)
SinTurns(phase) == TheOne({ SinTurn(t) : t \in {FSub(phase, FFloor(phase))} })

\* k ln 2 + 2 atanh z by the series 2z (1 + z2/3 + z2^2/5 + z2^3/7 + z2^4/9),
\* z2 = z^2, summed from the last term; p is the sum so far
Logf_Sum(k, z, p) == FAdd(FMul(IntToFloat(k), K.ln2), FMul(FMul(K.two, z), p))

Logf_Term1(k, z, z2, p) ==
  TheOne({ Logf_Sum(k, z, q) : q \in {FAdd(F1, FMul(z2, p))} })

Logf_Term3(k, z, z2, p) ==
  TheOne({ Logf_Term1(k, z, z2, q) : q \in {FAdd(FDiv(F1, K.c3), FMul(z2, p))} })

Logf_Term5(k, z, z2, p) ==
  TheOne({ Logf_Term3(k, z, z2, q) : q \in {FAdd(FDiv(F1, K.c5), FMul(z2, p))} })

Logf_Series(k, z, z2) ==
  TheOne({ Logf_Term5(k, z, z2, q) :
             q \in {FAdd(FDiv(F1, K.c7), FMul(z2, FDiv(F1, K.c9)))} })

Logf_Atanh(k, z) == TheOne({ Logf_Series(k, z, z2) : z2 \in {FMul(z, z)} })

\* ln(mant * 2^k) for mant in [1/sqrt 2, sqrt 2): ln mant = 2 atanh z,
\* z = (mant - 1) / (mant + 1)
Logf_Reduced(k, mant) ==
  TheOne({ Logf_Atanh(k, z) : z \in {FDiv(FSub(mant, F1), FAdd(mant, F1))} })

\* ln(m1 * 2^k1) for m1 in [1, 2)
Logf_Split(m1, k1, big) ==
  Logf_Reduced(IF big THEN k1 + 1 ELSE k1, IF big THEN Flt(0, m1.m, m1.e - 1) ELSE m1)

\* ln a where a.m has MantBits - sa bits
Logf_Shifted(a, sa) ==
  Logf_Split(Flt(0, a.m * Pow2(sa), 1 - MantBits), a.e - sa + MantBits - 1,
             FGt(Flt(0, a.m * Pow2(sa), 1 - MantBits), K.sqrt2))

\* logf(a) for a > 0
Logf(a) == Logf_Shifted(a, MantBits - BitLen(a.m))

\* log10f(a), a > 0
Log10f(a) == FMul(Logf(a), K.log10e)

\* ex * 2^n, flushed to zero below the subnormals
Pow10f_Scale(n, ex) == IF n + ex.e < EMin THEN F0 ELSE Flt(ex.s, ex.m, ex.e + n)

\* 2^n exp(w) by the series 1 + w + w^2/2 + ... + w^7/5040, summed from the last
\* term; p is the sum so far
Pow10f_Term0(n, w, p) == Pow10f_Scale(n, FAdd(F1, FMul(w, p)))

Pow10f_Term1(n, w, p) ==
  TheOne({ Pow10f_Term0(n, w, q) : q \in {FAdd(F1, FMul(w, p))} })

Pow10f_Term2(n, w, p) ==
  TheOne({ Pow10f_Term1(n, w, q) : q \in {FAdd(K.half, FMul(w, p))} })

Pow10f_Term3(n, w, p) ==
  TheOne({ Pow10f_Term2(n, w, q) : q \in {FAdd(FDiv(F1, K.c6), FMul(w, p))} })

Pow10f_Term4(n, w, p) ==
  TheOne({ Pow10f_Term3(n, w, q) : q \in {FAdd(FDiv(F1, K.c24), FMul(w, p))} })

Pow10f_Term5(n, w, p) ==
  TheOne({ Pow10f_Term4(n, w, q) : q \in {FAdd(FDiv(F1, K.c120), FMul(w, p))} })

Pow10f_Exp(n, w) ==
  TheOne({ Pow10f_Term5(n, w, q) : q \in {FAdd(FDiv(F1, K.c720), FDiv(w, K.c5040))} })

\* 2^t with t split into the whole part nf and the rest t - nf in [-1/2, 1/2]
Pow10f_Rest(t, nf) ==
  TheOne({ Pow10f_Exp(FloatToInt(nf), w) : w \in {FMul(FSub(t, nf), K.ln2)} })

\* powf(10.0f, y) = 2^(y log2(10))
Pow10f_Whole(t) == TheOne({ Pow10f_Rest(t, nf) : nf \in {FFloor(FAdd(t, K.half))} })

Pow10f(y) == TheOne({ Pow10f_Whole(t) : t \in {FMul(y, K.log2_10)} })

(***************************************************************************)
(* Delay lines.  A buffer float[capacity] is the function of its cells     *)
(* that do not hold +0.0f; every other cell reads as +0.0f.                *)
(***************************************************************************)
BufRead(buf, i) == IF i \in DOMAIN buf THEN buf[i] ELSE F0

BufWrite(buf, i, v) ==
  IF v = F0 THEN [j \in DOMAIN buf \ {i} |-> buf[j]]
  ELSE [j \in DOMAIN buf \cup {i} |-> IF j = i THEN v ELSE buf[j]]

\* a buffer with every cell 0.0f
BufClear == [j \in {} |-> F0]

(***************************************************************************)
(* HothouseControls (hothouse.h): knobs[i] is KNOB_i, toggles[i] is        *)
(* TOGGLESWITCH_i, footswitchRisingEdge[i] / footswitchPressed[i] is       *)
(* FOOTSWITCH_i (the C++ arrays are 0-based).                              *)
(***************************************************************************)
ToggleswitchPosition ==
  {"TOGGLESWITCH_UP", "TOGGLESWITCH_MIDDLE", "TOGGLESWITCH_DOWN", "TOGGLESWITCH_UNKNOWN"}

\* HothouseControls(): mid-scale knobs, MIDDLE toggles, no edges
HothouseControls_new ==
  [ knobs   |-> [i \in 1..6 |-> K.half],
    toggles |-> [i \in 1..3 |-> "TOGGLESWITCH_MIDDLE"],
    footswitchRisingEdge |-> [i \in 1..2 |-> FALSE],
    footswitchPressed    |-> [i \in 1..2 |-> FALSE] ]

\* the switch as it would be with a default case that selects mode 1
ToggleMode_default_middle(controls, old) ==
  CASE controls.toggles[1] = "TOGGLESWITCH_UP"     -> 0
    [] controls.toggles[1] = "TOGGLESWITCH_MIDDLE" -> 1
    [] controls.toggles[1] = "TOGGLESWITCH_DOWN"   -> 2
    [] OTHER -> 1

\* switch (controls.toggles[TOGGLESWITCH_1]) of every updateFromControls: the mode
\* for UP / MIDDLE / DOWN, the old mode for any other position
ToggleMode(controls, old) ==
  CASE controls.toggles[1] = "TOGGLESWITCH_UP"     -> 0
    [] controls.toggles[1] = "TOGGLESWITCH_MIDDLE" -> 1
    [] controls.toggles[1] = "TOGGLESWITCH_DOWN"   -> 2
    [] OTHER -> old

\* a smoother of an effect: ParameterSmoother(20.0f, (float)sampleRate, initial)
Smoother(sampleRate, initial) ==
  ParameterSmoother_new(K.c20, IntToFloat(sampleRate), initial)

\* the five setTarget calls shared by the effects with five smoothers, on the
\* fields f (in knob order KNOB_1, 2, 3, 4, 6)
SetTargets5(e, f, controls) ==
  [e EXCEPT ![f[1]] = ParameterSmoother_setTarget(@, controls.knobs[1]),
            ![f[2]] = ParameterSmoother_setTarget(@, controls.knobs[2]),
            ![f[3]] = ParameterSmoother_setTarget(@, controls.knobs[3]),
            ![f[4]] = ParameterSmoother_setTarget(@, controls.knobs[4]),
            ![f[5]] = ParameterSmoother_setTarget(@, controls.knobs[6])]

\* the same with two process() calls on each smoother
ProcessSmoothers_twice(e, f) ==
  [n \in DOMAIN e |-> IF \E i \in DOMAIN f : f[i] = n
                      THEN ParameterSmoother_process(ParameterSmoother_process(e[n]))
                      ELSE e[n]]

\* one process() call on each smoother named in f
ProcessSmoothers(e, f) ==
  [n \in DOMAIN e |-> IF \E i \in DOMAIN f : f[i] = n
                      THEN ParameterSmoother_process(e[n]) ELSE e[n]]

\* x * (27 + x^2) / (27 + 9 x^2), clamped to +-0.76159 beyond +-1
SoftClipCurve_rational(x, x2) ==
  FDiv(FMul(x, FAdd(K.c27, x2)), FAdd(K.c27, FMul(K.c9, x2)))

SoftClipCurve(x) ==
  IF FGt(x, F1) THEN K.tanh1
  ELSE IF FLt(x, FNeg(F1)) THEN FNeg(K.tanh1)
  ELSE SoftClipCurve_rational(x, FMul(x, x))

\* float hardClip(float sample, float threshold)
hardClip(sample, threshold) ==
  IF FGt(sample, threshold) THEN threshold
  ELSE IF FLt(sample, FNeg(threshold)) THEN FNeg(threshold)
  ELSE sample

\* the blend as it would be with the wet signal added at full weight
DryWet_added(inputSample, wet, mix) == FAdd(FMul(inputSample, FSub(F1, mix)), wet)

\* inputSample * (1.0f - mix) + wet * mix
DryWet(inputSample, wet, mix) ==
  FAdd(FMul(inputSample, FSub(F1, mix)), FMul(wet, mix))

\* alpha * sample + (1.0f - alpha) * previousSample
OnePole(sample, alpha, previousSample) ==
  FAdd(FMul(alpha, sample), FMul(FSub(F1, alpha), previousSample))

(***************************************************************************)
(* Overdrive (pedals/overdrive/overdrive.cpp)                              *)
(***************************************************************************)
OverdriveSmoothers == <<"smoothDrive", "smoothTone", "smoothBass", "smoothLevel", "smoothMix">>

Overdrive_new(sampleRate) ==
  [ smoothDrive |-> Smoother(sampleRate, K.half),
    smoothTone  |-> Smoother(sampleRate, K.c0_7),
    smoothBass  |-> Smoother(sampleRate, K.half),
    smoothLevel |-> Smoother(sampleRate, K.c0_8),
    smoothMix   |-> Smoother(sampleRate, F1),
    previousSample |-> F0, bassState |-> F0, voicing |-> 1 ]

Overdrive_updateFromControls(e, controls) ==
  [SetTargets5(e, OverdriveSmoothers, controls) EXCEPT
     !.voicing = ToggleMode(controls, e.voicing)]

\* process, last part: mix with the dry signal and scale by the level
Overdrive_output(e, inputSample, bassState, toned) ==
  [ st  |-> [e EXCEPT !.bassState = bassState, !.previousSample = toned],
    out |-> FMul(DryWet(inputSample, toned, e.smoothMix.currentValue),
                 e.smoothLevel.currentValue) ]

\* toneControl's alpha for the voicing's base
Overdrive_toneAlpha(toneBase, tone) ==
  FAdd(toneBase, FMul(FMul(tone, FSub(F1, toneBase)), K.c0_98))

\* process, middle part: bass boost, soft clipping, tone control
Overdrive_tone(e, inputSample, bassState) ==
  Overdrive_output(e, inputSample, bassState,
    OnePole(SoftClipCurve(
              FMul(FAdd(inputSample,
                        FMul(bassState,
                             FMul(FSub(e.smoothBass.currentValue, K.half), K.two))),
                   FAdd(F1, FMul(e.smoothDrive.currentValue, K.c9)))),
            Overdrive_toneAlpha(CASE e.voicing = 0 -> K.c0_3 [] e.voicing = 2 -> K.c0_7
                                  [] OTHER -> K.half,
                                e.smoothTone.currentValue),
            e.previousSample))

\* process, after the smoothers were advanced: the bass filter's state
Overdrive_bass(e, inputSample) ==
  Overdrive_tone(e, inputSample,
                 FAdd(FMul(e.bassState, FSub(F1, K.c0_05)), FMul(inputSample, K.c0_05)))

Overdrive_process(e0, inputSample) ==
  TheOne({ Overdrive_bass(e, inputSample) : e \in {ProcessSmoothers(e0, OverdriveSmoothers)} })

\* reset as it would be if it left the filter states alone
Overdrive_reset_none(e) == e

Overdrive_reset(e) == [e EXCEPT !.previousSample = F0, !.bassState = F0]

(***************************************************************************)
(* Distortion (pedals/distortion/distortion.cpp)                           *)
(***************************************************************************)
DistortionSmoothers == <<"smoothGain", "smoothTone", "smoothBass", "smoothLevel", "smoothMix">>

Distortion_new(sampleRate) ==
  [ smoothGain  |-> Smoother(sampleRate, K.half),
    smoothTone  |-> Smoother(sampleRate, K.c0_6),
    smoothBass  |-> Smoother(sampleRate, K.half),
    smoothLevel |-> Smoother(sampleRate, K.c0_7),
    smoothMix   |-> Smoother(sampleRate, F1),
    previousSample |-> F0, dcBlocker |-> F0, bassState |-> F0, clipMode |-> 0 ]

Distortion_updateFromControls(e, controls) ==
  [SetTargets5(e, DistortionSmoothers, controls) EXCEPT
     !.clipMode = ToggleMode(controls, e.clipMode)]

\* process, last part: mix with the dry signal and scale by the level
Distortion_output(e, inputSample, bassState, toned) ==
  [ st  |-> [e EXCEPT !.dcBlocker = FMul(inputSample, K.c0_995),
                      !.bassState = bassState, !.previousSample = toned],
    out |-> FMul(DryWet(inputSample, toned, e.smoothMix.currentValue),
                 e.smoothLevel.currentValue) ]

\* the clipper of the clip mode
Distortion_clip(e, amplified) ==
  CASE e.clipMode = 0 -> hardClip(amplified, K.c0_7)
    [] e.clipMode = 1 -> SoftClipCurve(FMul(hardClip(amplified, K.c0_85), K.c0_8))
    [] OTHER -> SoftClipCurve(FMul(amplified, K.half))

\* process, middle part: bass boost, gain, clipping, tone control
Distortion_tone(e, inputSample, sample, bassState) ==
  Distortion_output(e, inputSample, bassState,
    OnePole(Distortion_clip(e,
              FMul(FAdd(sample,
                        FMul(bassState,
                             FMul(FSub(e.smoothBass.currentValue, K.half), K.two))),
                   FAdd(F1, FMul(e.smoothGain.currentValue, K.c99)))),
            FAdd(K.c0_3, FMul(e.smoothTone.currentValue, K.c0_69)),
            e.previousSample))

\* process, with sample the input after dcBlock: the bass filter's state
Distortion_bass(e, inputSample, sample) ==
  Distortion_tone(e, inputSample, sample,
                  FAdd(FMul(e.bassState, FSub(F1, K.c0_05)), FMul(sample, K.c0_05)))

\* process, after the smoothers were advanced: dcBlock
Distortion_dcBlock(e, inputSample) ==
  Distortion_bass(e, inputSample, FSub(inputSample, e.dcBlocker))

Distortion_process(e0, inputSample) ==
  TheOne({ Distortion_dcBlock(e, inputSample) : e \in {ProcessSmoothers(e0, DistortionSmoothers)} })

Distortion_reset(e) ==
  [e EXCEPT !.previousSample = F0, !.dcBlocker = F0, !.bassState = F0]

(***************************************************************************)
(* Fuzz (pedals/fuzz/fuzz.cpp)                                             *)
(***************************************************************************)
FuzzSmoothers == <<"smoothFuzz", "smoothTone", "smoothGate", "smoothLevel", "smoothMix">>

Fuzz_new(sampleRate) ==
  [ smoothFuzz  |-> Smoother(sampleRate, K.c0_7),
    smoothTone  |-> Smoother(sampleRate, K.half),
    smoothGate  |-> Smoother(sampleRate, F0),
    smoothLevel |-> Smoother(sampleRate, K.c0_7),
    smoothMix   |-> Smoother(sampleRate, F1),
    previousSample |-> F0, dcBlocker |-> F0, character |-> 0 ]

Fuzz_updateFromControls(e, controls) ==
  [SetTargets5(e, FuzzSmoothers, controls) EXCEPT
     !.character = ToggleMode(controls, e.character)]

vintageClip(sample) ==
  IF FGt(sample, K.half) THEN FAdd(K.half, FMul(FSub(sample, K.half), K.c0_1))
  ELSE IF FLt(sample, FNeg(K.c0_6))
    THEN FAdd(FNeg(K.c0_6), FMul(FAdd(sample, K.c0_6), K.c0_15))
  ELSE sample

modernClip(sample) == hardClip(sample, K.c0_4)

octaveClip(sample) ==
  LET rectified == IF FGt(FAbs(sample), K.half) THEN K.half ELSE FAbs(sample)
      sign == IF FGt(sample, F0) THEN F1 ELSE FNeg(F1)
  IN  FAdd(FMul(FMul(rectified, sign), K.half), FMul(sample, K.half))

\* process, last part, inputSample being the gated input: mix and level
Fuzz_output(e, inputSample, dcBlocker, toned) ==
  [ st  |-> [e EXCEPT !.dcBlocker = dcBlocker, !.previousSample = toned],
    out |-> FMul(FMul(DryWet(inputSample, toned, e.smoothMix.currentValue),
                      e.smoothLevel.currentValue), K.c0_8) ]

\* process, with clipped the clipper's output: dcBlock and tone control
Fuzz_tone(e, inputSample, clipped) ==
  Fuzz_output(e, inputSample, FMul(clipped, K.c0_995),
              OnePole(FSub(clipped, e.dcBlocker),
                      FAdd(K.c0_2, FMul(e.smoothTone.currentValue, K.c0_79)),
                      e.previousSample))

\* the clipper of the character
Fuzz_clip(e, amplified) ==
  CASE e.character = 0 -> vintageClip(amplified)
    [] e.character = 1 -> modernClip(amplified)
    [] OTHER -> octaveClip(amplified)

\* process, after the noise gate
Fuzz_gain(e, inputSample) ==
  Fuzz_tone(e, inputSample,
            Fuzz_clip(e, FMul(inputSample,
                              FAdd(F1, FMul(e.smoothFuzz.currentValue, K.c199)))))

\* process, after the smoothers were advanced: the noise gate
Fuzz_gate(e, inputSample0) ==
  Fuzz_gain(e, IF FLt(FAbs(inputSample0), FMul(e.smoothGate.currentValue, K.c0_1))
               THEN F0 ELSE inputSample0)

Fuzz_process(e0, inputSample0) ==
  TheOne({ Fuzz_gate(e, inputSample0) : e \in {ProcessSmoothers(e0, FuzzSmoothers)} })

Fuzz_reset(e) == [e EXCEPT !.previousSample = F0, !.dcBlocker = F0]

(***************************************************************************)
(* Chorus (pedals/chorus/chorus.cpp)                                       *)
(***************************************************************************)
MAX_CHORUS_DELAY == 4800

\* 2.0f * fabsf(2.0f * (phase - floorf(phase + 0.5f))) - 1.0f
TriangleLFO(phase) ==
  FSub(FMul(K.two, FAbs(FMul(K.two, FSub(phase, FFloor(FAdd(phase, K.half)))))), F1)

\* phase < 0.5f ? 1.0f : -1.0f
SquareLFO(phase) == IF FLt(phase, K.half) THEN F1 ELSE FNeg(F1)

\* phase += rate / sampleRate; if (phase >= 1.0f) phase -= 1.0f
AdvancePhase_wrap(p) == IF FGe(p, F1) THEN FSub(p, F1) ELSE p

AdvancePhase(phase, rate, sampleRate) == AdvancePhase_wrap(FAdd(phase, FDiv(rate, sampleRate)))

\* the read index as it would be without the wrap
ReadIndex_unwrapped(writeIndex, delaySamples, size) == writeIndex - delaySamples

\* index = writeIndex - delaySamples; if (index < 0) index += size
ReadIndex(writeIndex, delaySamples, size) ==
  IF writeIndex - delaySamples < 0 THEN writeIndex - delaySamples + size
  ELSE writeIndex - delaySamples

\* writeIndex++; if (writeIndex >= size) writeIndex = 0
NextIndex(writeIndex, size) == IF writeIndex + 1 >= size THEN 0 ELSE writeIndex + 1

Chorus_new(sr) ==
  [ delayBuffer |-> BufClear, writeIndex |-> 0, lfoPhase |-> F0,
    sampleRate  |-> IntToFloat(sr),
    smoothRate  |-> Smoother(sr, F1),
    smoothDepth |-> Smoother(sr, K.half),
    smoothMix   |-> Smoother(sr, K.half),
    waveform |-> 0 ]

Chorus_getLFO(e) ==
  CASE e.waveform = 1 -> TriangleLFO(e.lfoPhase)
    [] e.waveform = 2 -> SquareLFO(e.lfoPhase)
    [] OTHER -> SinTurns(e.lfoPhase)

Chorus_updateFromControls(e, controls) ==
  [e EXCEPT
     !.smoothRate  = ParameterSmoother_setTarget(@, FAdd(K.c0_1, FMul(controls.knobs[1], K.c4_9))),
     !.smoothDepth = ParameterSmoother_setTarget(@, controls.knobs[2]),
     !.smoothMix   = ParameterSmoother_setTarget(@, controls.knobs[6]),
     !.waveform    = ToggleMode(controls, e.waveform)]

Chorus_getLedState(e) == FMul(FAdd(Chorus_getLFO(e), F1), K.half)

\* process, last part: read the delayed sample, write the input
Chorus_output(e, inputSample, readIndex) ==
  [ st  |-> [e EXCEPT !.delayBuffer = BufWrite(@, e.writeIndex, inputSample),
                      !.writeIndex = NextIndex(@, MAX_CHORUS_DELAY)],
    out |-> DryWet(inputSample, BufRead(e.delayBuffer, readIndex),
                   e.smoothMix.currentValue),
    idx |-> <<readIndex, e.writeIndex>> ]

\* process, with d0 = (int)(modulatedDelay * sampleRate / 1000.0f): the clamp
Chorus_clamp(e, inputSample, d0) ==
  Chorus_output(e, inputSample,
                ReadIndex(e.writeIndex,
                          IF d0 >= MAX_CHORUS_DELAY THEN MAX_CHORUS_DELAY - 1
                          ELSE IF d0 < 1 THEN 1 ELSE d0,
                          MAX_CHORUS_DELAY))

\* process, with the LFO phase advanced: the modulated delay
Chorus_modulate(e, inputSample, depth) ==
  TheOne({ Chorus_clamp(e, inputSample,
                        FloatToInt(FDiv(FMul(FAdd(FAdd(K.c10, FMul(depth, K.c15)),
                                                  FMul(FMul(lfo, depth), K.c5)),
                                             e.sampleRate),
                                        K.c1000))) :
             lfo \in {Chorus_getLFO(e)} })

\* process, after the smoothers were advanced: the LFO phase
Chorus_lfo(e1, inputSample) ==
  TheOne({ Chorus_modulate([e1 EXCEPT !.lfoPhase = lfoPhase], inputSample,
                           e1.smoothDepth.currentValue) :
             lfoPhase \in {AdvancePhase(e1.lfoPhase, e1.smoothRate.currentValue,
                                        e1.sampleRate)} })

Chorus_process(e0, inputSample) ==
  TheOne({ Chorus_lfo(e, inputSample) : e \in {ProcessSmoothers(e0, <<"smoothRate", "smoothDepth", "smoothMix">>)} })

Chorus_reset(e) ==
  [e EXCEPT !.writeIndex = 0, !.lfoPhase = F0, !.delayBuffer = BufClear]

(***************************************************************************)
(* Tremolo (pedals/tremolo/tremolo.cpp)                                    *)
(***************************************************************************)
TremoloSmoothers == <<"smoothRate", "smoothDepth", "smoothShape", "smoothLevel", "smoothMix">>

Tremolo_new(sr) ==
  [ sampleRate  |-> IntToFloat(sr),
    smoothRate  |-> Smoother(sr, K.c0_3),
    smoothDepth |-> Smoother(sr, K.half),
    smoothShape |-> Smoother(sr, F0),
    smoothLevel |-> Smoother(sr, F1),
    smoothMix   |-> Smoother(sr, F1),
    phase |-> F0, mode |-> 0, optoState |-> F1 ]

\* sine (shape 0) to triangle (0.5) to square (1)
Tremolo_blend(from, to, t) == FAdd(FMul(from, FSub(F1, t)), FMul(to, t))

Tremolo_getLFO(e, shape) ==
  IF FLt(shape, K.half)
  THEN Tremolo_blend(SinTurns(e.phase), TriangleLFO(e.phase), FMul(shape, K.two))
  ELSE Tremolo_blend(TriangleLFO(e.phase), SquareLFO(e.phase),
                     FMul(FSub(shape, K.half), K.two))

Tremolo_updateFromControls(e, controls) ==
  [e EXCEPT
     !.smoothRate  = ParameterSmoother_setTarget(@, FAdd(K.half, FMul(controls.knobs[1], K.c19_5))),
     !.smoothDepth = ParameterSmoother_setTarget(@, controls.knobs[2]),
     !.smoothShape = ParameterSmoother_setTarget(@, controls.knobs[3]),
     !.smoothLevel = ParameterSmoother_setTarget(@, controls.knobs[4]),
     !.smoothMix   = ParameterSmoother_setTarget(@, controls.knobs[6]),
     !.mode        = ToggleMode(controls, e.mode)]

Tremolo_getLedState(e) == FMul(FAdd(SinTurns(e.phase), F1), K.half)

\* process, last part: modulate, mix, level and advance the phase
Tremolo_output(e, inputSample, optoState, amplitude) ==
  [ st  |-> [e EXCEPT !.optoState = optoState,
                      !.phase = AdvancePhase(@, e.smoothRate.currentValue, e.sampleRate)],
    out |-> FMul(DryWet(inputSample, FMul(inputSample, amplitude),
                        e.smoothMix.currentValue),
                 e.smoothLevel.currentValue),
    amplitude |-> amplitude ]

\* process, with the mode's amplitude amp0: the clamp to [0, 1]
Tremolo_clamp(e, inputSample, optoState, amp0) ==
  TheOne({ Tremolo_output(e, inputSample, optoState, amplitude) :
             amplitude \in {IF FLt(amp0, F0) THEN F0
                            ELSE IF FGt(amp0, F1) THEN F1 ELSE amp0} })

\* process, with optoState as the mode left it: the mode's amplitude
Tremolo_amplitude(e, inputSample, depth, lfo, target, optoState) ==
  Tremolo_clamp(e, inputSample, optoState,
                CASE e.mode = 0 -> FSub(F1, FMul(FMul(depth, K.half), FAdd(F1, lfo)))
                  [] e.mode = 1 -> target
                  [] OTHER -> optoState)

\* the opto cell following target with the coefficient coeff
Tremolo_opto(e, target, coeff) ==
  FAdd(FMul(e.optoState, coeff), FMul(target, FSub(F1, coeff)))

\* process, with target = 1 - depth (lfo + 1) / 2
Tremolo_mode(e, inputSample, depth, lfo, target) ==
  TheOne({ Tremolo_amplitude(e, inputSample, depth, lfo, target, optoState) :
             optoState \in {IF e.mode \in {0, 1} THEN e.optoState
                            ELSE Tremolo_opto(e, target,
                                              IF FLt(target, e.optoState) THEN K.c0_99
                                              ELSE K.c0_995)} })

\* process, with the LFO's value lfo
Tremolo_target(e, inputSample, depth, lfo) ==
  TheOne({ Tremolo_mode(e, inputSample, depth, lfo, target) :
             target \in {FSub(F1, FMul(FMul(depth, FAdd(lfo, F1)), K.half))} })

\* process, after the smoothers were advanced: the LFO
Tremolo_lfo(e, inputSample) ==
  TheOne({ Tremolo_target(e, inputSample, e.smoothDepth.currentValue, lfo) :
             lfo \in {Tremolo_getLFO(e, e.smoothShape.currentValue)} })

Tremolo_process(e0, inputSample) ==
  TheOne({ Tremolo_lfo(e, inputSample) : e \in {ProcessSmoothers(e0, TremoloSmoothers)} })

Tremolo_reset(e) == [e EXCEPT !.phase = F0, !.optoState = F1]

(***************************************************************************)
(* Delay (pedals/delay/delay.cpp)                                          *)
(***************************************************************************)
MAX_DELAY_SAMPLES == 48000

DelaySmoothers == <<"smoothTime", "smoothFeedback", "smoothFilter", "smoothLevel", "smoothMix">>

Delay_new(sr) ==
  [ delayBuffer |-> BufClear, writeIndex |-> 0, sampleRate |-> sr,
    smoothTime     |-> Smoother(sr, K.half),
    smoothFeedback |-> Smoother(sr, K.half),
    smoothFilter   |-> Smoother(sr, K.c0_7),
    smoothLevel    |-> Smoother(sr, F1),
    smoothMix      |-> Smoother(sr, K.half),
    filterState |-> F0, timeMultiplier |-> F1 ]

\* updateFromControls as it would be if KNOB_4 were applied at once
Delay_updateFromControls_immediate(e, controls) ==
  LET timeMultiplier ==
        CASE controls.toggles[1] = "TOGGLESWITCH_UP"     -> K.c0_25
          [] controls.toggles[1] = "TOGGLESWITCH_MIDDLE" -> K.half
          [] controls.toggles[1] = "TOGGLESWITCH_DOWN"   -> F1
          [] OTHER -> e.timeMultiplier
  IN  \* timeMultiplier is a table lookup: cheap to read twice
      [e EXCEPT
         !.timeMultiplier = timeMultiplier,
         !.smoothTime     = ParameterSmoother_setTarget(@, FMul(controls.knobs[1], timeMultiplier)),
         !.smoothFeedback = ParameterSmoother_setTarget(@, FMul(controls.knobs[2], K.c0_9)),
         !.smoothFilter   = ParameterSmoother_setTarget(@, controls.knobs[3]),
         !.smoothLevel    = ParameterSmoother_setImmediate(@, controls.knobs[4]),
         !.smoothMix      = ParameterSmoother_setTarget(@, controls.knobs[6])]

Delay_updateFromControls(e, controls) ==
  LET timeMultiplier ==
        CASE controls.toggles[1] = "TOGGLESWITCH_UP"     -> K.c0_25
          [] controls.toggles[1] = "TOGGLESWITCH_MIDDLE" -> K.half
          [] controls.toggles[1] = "TOGGLESWITCH_DOWN"   -> F1
          [] OTHER -> e.timeMultiplier
  IN  \* timeMultiplier is a table lookup: cheap to read twice
      [e EXCEPT
         !.timeMultiplier = timeMultiplier,
         !.smoothTime     = ParameterSmoother_setTarget(@, FMul(controls.knobs[1], timeMultiplier)),
         !.smoothFeedback = ParameterSmoother_setTarget(@, FMul(controls.knobs[2], K.c0_9)),
         !.smoothFilter   = ParameterSmoother_setTarget(@, controls.knobs[3]),
         !.smoothLevel    = ParameterSmoother_setTarget(@, controls.knobs[4]),
         !.smoothMix      = ParameterSmoother_setTarget(@, controls.knobs[6])]

\* the same without the clamp of the sample written back
Delay_output_unclipped(e, inputSample, readIndex, delayedSample, filterState) ==
  [ st  |-> [e EXCEPT
               !.filterState = filterState,
               !.delayBuffer =
                  BufWrite(@, e.writeIndex,
                           FAdd(inputSample, FMul(filterState, e.smoothFeedback.currentValue))),
               !.writeIndex = NextIndex(@, MAX_DELAY_SAMPLES)],
    out |-> DryWet(inputSample, FMul(delayedSample, e.smoothLevel.currentValue),
                   e.smoothMix.currentValue),
    idx |-> <<readIndex, e.writeIndex>> ]

\* process, last part: feed the line and mix
Delay_output(e, inputSample, readIndex, delayedSample, filterState) ==
  [ st  |-> [e EXCEPT
               !.filterState = filterState,
               !.delayBuffer =
                  BufWrite(@, e.writeIndex,
                           hardClip(FAdd(inputSample,
                                         FMul(filterState, e.smoothFeedback.currentValue)),
                                    F1)),
               !.writeIndex = NextIndex(@, MAX_DELAY_SAMPLES)],
    out |-> DryWet(inputSample, FMul(delayedSample, e.smoothLevel.currentValue),
                   e.smoothMix.currentValue),
    idx |-> <<readIndex, e.writeIndex>> ]

\* process, with the delayed sample read: the feedback filter
Delay_filter(e, inputSample, readIndex, delayedSample, filterCoeff) ==
  Delay_output(e, inputSample, readIndex, delayedSample,
               FAdd(FMul(e.filterState, FSub(F1, filterCoeff)),
                    FMul(delayedSample, filterCoeff)))

Delay_read(e, inputSample, readIndex) ==
  Delay_filter(e, inputSample, readIndex, BufRead(e.delayBuffer, readIndex),
               FAdd(K.c0_1, FMul(e.smoothFilter.currentValue, K.c0_89)))

\* process, with d0 = (int)((0.05f + time * 0.95f) * sampleRate): the clamp
Delay_clamp(e, inputSample, d0) ==
  Delay_read(e, inputSample,
             ReadIndex(e.writeIndex,
                       IF d0 < 1 THEN 1
                       ELSE IF d0 >= MAX_DELAY_SAMPLES THEN MAX_DELAY_SAMPLES - 1
                       ELSE d0,
                       MAX_DELAY_SAMPLES))

\* process, after the smoothers were advanced: the delay time
Delay_time(e, inputSample) ==
  Delay_clamp(e, inputSample,
              FloatToInt(FMul(FAdd(K.c0_05, FMul(e.smoothTime.currentValue, K.c0_95)),
                              IntToFloat(e.sampleRate))))

Delay_process(e0, inputSample) ==
  TheOne({ Delay_time(e, inputSample) : e \in {ProcessSmoothers(e0, DelaySmoothers)} })

Delay_reset(e) ==
  [e EXCEPT !.writeIndex = 0, !.filterState = F0, !.delayBuffer = BufClear]

(***************************************************************************)
(* Reverb (pedals/reverb/reverb.cpp)                                       *)
(***************************************************************************)
NUM_COMB_FILTERS == 4

NUM_ALLPASS_FILTERS == 2

MAX_PREDELAY == 4800

baseCombDelays == <<1557, 1617, 1491, 1422>>

baseAllpassDelays == <<225, 556>>

CombFilter_new(size) ==
  [ buffer |-> BufClear, bufferSize |-> size, index |-> 0,
    feedback |-> K.c0_7, damping |-> K.half, dampState |-> F0 ]

CombFilter_store(c, input, output, dampState) ==
  [ st  |-> [c EXCEPT !.dampState = dampState,
                      !.buffer = BufWrite(@, c.index, FAdd(input, FMul(dampState, c.feedback))),
                      !.index = (c.index + 1) % c.bufferSize],
    out |-> output ]

CombFilter_damp(c, input, output) ==
  CombFilter_store(c, input, output,
                   FAdd(FMul(output, FSub(F1, c.damping)), FMul(c.dampState, c.damping)))

CombFilter_process(c, input) == CombFilter_damp(c, input, BufRead(c.buffer, c.index))

CombFilter_clear(c) == [c EXCEPT !.buffer = BufClear, !.index = 0, !.dampState = F0]

AllpassFilter_new(size) ==
  [ buffer |-> BufClear, bufferSize |-> size, index |-> 0, gain |-> K.half ]

AllpassFilter_store(a, input, bufOut) ==
  [ st  |-> [a EXCEPT !.buffer = BufWrite(@, a.index, FAdd(input, FMul(bufOut, a.gain))),
                      !.index = (a.index + 1) % a.bufferSize],
    out |-> FAdd(FNeg(input), bufOut) ]

AllpassFilter_process(a, input) == AllpassFilter_store(a, input, BufRead(a.buffer, a.index))

AllpassFilter_clear(a) == [a EXCEPT !.buffer = BufClear, !.index = 0]

ReverbSmoothers == <<"smoothSize", "smoothDamping", "smoothPredelay", "smoothLevel", "smoothMix">>

Reverb_new(sampleRate) ==
  [ combFilters    |-> [i \in 1..NUM_COMB_FILTERS |-> CombFilter_new(baseCombDelays[i])],
    allpassFilters |-> [i \in 1..NUM_ALLPASS_FILTERS |-> AllpassFilter_new(baseAllpassDelays[i])],
    predelayBuffer |-> BufClear, predelayWriteIndex |-> 0,
    smoothSize     |-> Smoother(sampleRate, K.half),
    smoothDamping  |-> Smoother(sampleRate, K.half),
    smoothPredelay |-> Smoother(sampleRate, F0),
    smoothLevel    |-> Smoother(sampleRate, F1),
    smoothMix      |-> Smoother(sampleRate, K.c0_3),
    roomType |-> 1, sizeMultiplier |-> F1 ]

Reverb_updateFromControls(e, controls) ==
  [SetTargets5(e, ReverbSmoothers, controls) EXCEPT
     !.roomType = ToggleMode(controls, e.roomType),
     !.sizeMultiplier =
        CASE controls.toggles[1] = "TOGGLESWITCH_UP"     -> K.half
          [] controls.toggles[1] = "TOGGLESWITCH_MIDDLE" -> F1
          [] controls.toggles[1] = "TOGGLESWITCH_DOWN"   -> K.c1_5
          [] OTHER -> e.sizeMultiplier]

\* the feedback as it would be without the ceiling
Reverb_limit_none(feedback) == feedback

\* 0.5f + size * sizeMultiplier * 0.35f, at most 0.95f
Reverb_limit(feedback) == IF FGt(feedback, K.c0_95) THEN K.c0_95 ELSE feedback

Reverb_feedback(size, sizeMultiplier) ==
  Reverb_limit(FAdd(K.half, FMul(FMul(size, sizeMultiplier), K.c0_35)))

\* process, last part; comb, ap1 and ap2 are the filters' results (state, output)
Reverb_output(e, inputSample, predelayBuffer, predelayReadIndex, comb, ap1, ap2) ==
  [ st  |-> [e EXCEPT !.predelayBuffer = predelayBuffer,
                      !.predelayWriteIndex = NextIndex(@, MAX_PREDELAY),
                      !.combFilters = [i \in 1..NUM_COMB_FILTERS |-> comb[i].st],
                      !.allpassFilters = <<ap1.st, ap2.st>>],
    out |-> DryWet(inputSample, FMul(ap2.out, e.smoothLevel.currentValue),
                   e.smoothMix.currentValue),
    idx |-> <<predelayReadIndex, e.predelayWriteIndex>> ]

Reverb_allpass2(e, inputSample, predelayBuffer, predelayReadIndex, comb, ap1) ==
  Reverb_output(e, inputSample, predelayBuffer, predelayReadIndex, comb, ap1,
                AllpassFilter_process(e.allpassFilters[2], ap1.out))

\* the same with combOut *= NUM_COMB_FILTERS in place of combOut /= NUM_COMB_FILTERS
Reverb_allpass1_times(e, inputSample, predelayBuffer, predelayReadIndex, comb) ==
  Reverb_allpass2(e, inputSample, predelayBuffer, predelayReadIndex, comb,
                  AllpassFilter_process(
                    e.allpassFilters[1],
                    FMul(FAdd(FAdd(FAdd(FAdd(F0, comb[1].out), comb[2].out), comb[3].out),
                              comb[4].out),
                         IntToFloat(NUM_COMB_FILTERS))))

\* process, with the comb filters' results: their mean through the allpass filters
Reverb_allpass1(e, inputSample, predelayBuffer, predelayReadIndex, comb) ==
  Reverb_allpass2(e, inputSample, predelayBuffer, predelayReadIndex, comb,
                  AllpassFilter_process(
                    e.allpassFilters[1],
                    FDiv(FAdd(FAdd(FAdd(FAdd(F0, comb[1].out), comb[2].out), comb[3].out),
                              comb[4].out),
                         IntToFloat(NUM_COMB_FILTERS))))

\* process, with the predelayed sample: the comb filters, in index order
Reverb_combs(e, inputSample, predelayBuffer, predelayReadIndex, feedback, predelayedSample) ==
  Reverb_allpass1(e, inputSample, predelayBuffer, predelayReadIndex,
                  [i \in 1..NUM_COMB_FILTERS |->
                     CombFilter_process([e.combFilters[i] EXCEPT
                                           !.feedback = feedback,
                                           !.damping = e.smoothDamping.currentValue],
                                        predelayedSample)])

Reverb_predelay(e, inputSample, predelayBuffer, predelayReadIndex) ==
  Reverb_combs(e, inputSample, predelayBuffer, predelayReadIndex,
               Reverb_feedback(e.smoothSize.currentValue, e.sizeMultiplier),
               BufRead(predelayBuffer, predelayReadIndex))

\* process, with p0 = (int)(predelay * MAX_PREDELAY): the sample is written to the
\* predelay line before the line is read
Reverb_clamp(e, inputSample, p0) ==
  Reverb_predelay(e, inputSample,
                  BufWrite(e.predelayBuffer, e.predelayWriteIndex, inputSample),
                  ReadIndex(e.predelayWriteIndex,
                            IF p0 < 1 THEN 1
                            ELSE IF p0 >= MAX_PREDELAY THEN MAX_PREDELAY - 1 ELSE p0,
                            MAX_PREDELAY))

\* process, after the smoothers were advanced
Reverb_size(e, inputSample) ==
  Reverb_clamp(e, inputSample,
               FloatToInt(FMul(e.smoothPredelay.currentValue, IntToFloat(MAX_PREDELAY))))

Reverb_process(e0, inputSample) ==
  TheOne({ Reverb_size(e, inputSample) : e \in {ProcessSmoothers(e0, ReverbSmoothers)} })

Reverb_reset(e) ==
  [e EXCEPT !.combFilters = [i \in 1..NUM_COMB_FILTERS |-> CombFilter_clear(@[i])],
            !.allpassFilters = [i \in 1..NUM_ALLPASS_FILTERS |-> AllpassFilter_clear(@[i])],
            !.predelayBuffer = BufClear, !.predelayWriteIndex = 0]

(***************************************************************************)
(* Compressor (pedals/compressor/compressor.cpp)                           *)
(***************************************************************************)
CompressorSmoothers ==
  <<"smoothThreshold", "smoothRatio", "smoothAttack", "smoothRelease", "smoothMakeup", "smoothMix">>

Compressor_new(sampleRate) ==
  [ smoothThreshold |-> Smoother(sampleRate, K.half),
    smoothRatio     |-> Smoother(sampleRate, K.c0_25),
    smoothAttack    |-> Smoother(sampleRate, K.c0_3),
    smoothRelease   |-> Smoother(sampleRate, K.half),
    smoothMakeup    |-> Smoother(sampleRate, K.half),
    smoothMix       |-> Smoother(sampleRate, F1),
    envelope |-> F0, gainReductionDb |-> F0, kneeMode |-> 0, kneeWidth |-> K.c6 ]

\* the envelope after getEnvelope(sample, attack, release)
Compressor_getEnvelope(e, sample, attack, release) ==
  LET rectified == FAbs(sample)
  IN  IF FGt(rectified, e.envelope)
      THEN FAdd(FMul(attack, e.envelope), FMul(FSub(F1, attack), rectified))
      ELSE FAdd(FMul(release, e.envelope), FMul(FSub(F1, release), rectified))

\* gainDb of computeGain for an envelope of at least 0.0001f
\* gainDb inside the knee, x = envDb - threshDb + knee / 2
Compressor_knee(ratio, x, knee) ==
  FDiv(FMul(FMul(FSub(FDiv(F1, ratio), F1), x), x), FMul(K.two, knee))

\* gainDb above the threshold (and the knee)
Compressor_over(envDb, threshDb, ratio) ==
  FSub(FAdd(threshDb, FDiv(FSub(envDb, threshDb), ratio)), envDb)

\* the curve as it would be with the knee region applied in every knee mode
Compressor_curve_soft(e, ratio, envDb, threshDb, halfKnee) ==
  IF FLt(envDb, FSub(threshDb, halfKnee)) THEN F0
  ELSE IF FGt(envDb, FAdd(threshDb, halfKnee)) THEN Compressor_over(envDb, threshDb, ratio)
  ELSE Compressor_knee(ratio, FAdd(FSub(envDb, threshDb), halfKnee), e.kneeWidth)

Compressor_curve(e, ratio, envDb, threshDb, halfKnee) ==
  IF e.kneeMode = 0
  THEN IF FGt(envDb, threshDb) THEN Compressor_over(envDb, threshDb, ratio) ELSE F0
  ELSE IF FLt(envDb, FSub(threshDb, halfKnee)) THEN F0
  ELSE IF FGt(envDb, FAdd(threshDb, halfKnee)) THEN Compressor_over(envDb, threshDb, ratio)
  ELSE Compressor_knee(ratio, FAdd(FSub(envDb, threshDb), halfKnee), e.kneeWidth)

\* gainDb of computeGain for an envelope of at least 0.0001f
Compressor_gainDb(e, envLevel, threshold, ratio) ==
  TheOne({ Compressor_curve(e, ratio, envDb, threshDb, FDiv(e.kneeWidth, K.two)) :
             envDb \in {FMul(K.c20, Log10f(envLevel))},
             threshDb \in {FMul(K.c20, Log10f(FAdd(threshold, K.eps)))} })

\* the same with gainDb cached as it is, not negated
Compressor_gain_unnegated(gainDb) ==
  [gain |-> Pow10f(FDiv(gainDb, K.c20)), gainReductionDb |-> gainDb]

\* computeGain past the floor: the gain returned and gainReductionDb afterwards
Compressor_gain(gainDb) ==
  [gain |-> Pow10f(FDiv(gainDb, K.c20)), gainReductionDb |-> FNeg(gainDb)]

\* computeGain: the gain returned and gainReductionDb afterwards
Compressor_computeGain(e, envLevel, threshold, ratio) ==
  IF FLt(envLevel, K.eps) THEN [gain |-> F1, gainReductionDb |-> e.gainReductionDb]
  ELSE TheOne({ Compressor_gain(gainDb) :
                  gainDb \in {Compressor_gainDb(e, envLevel, threshold, ratio)} })

Compressor_updateFromControls(e, controls) ==
  [e EXCEPT
     !.smoothThreshold = ParameterSmoother_setTarget(@, FAdd(K.c0_01, FMul(controls.knobs[1], K.c0_99))),
     !.smoothRatio     = ParameterSmoother_setTarget(@, FAdd(F1, FMul(controls.knobs[2], K.c19))),
     !.smoothAttack    = ParameterSmoother_setTarget(@, FAdd(K.half, FMul(controls.knobs[3], K.c0_49))),
     !.smoothRelease   = ParameterSmoother_setTarget(@, FAdd(K.c0_9, FMul(controls.knobs[4], K.c0_099))),
     !.smoothMakeup    = ParameterSmoother_setTarget(@, FAdd(F1, FMul(controls.knobs[5], K.c9))),
     !.smoothMix       = ParameterSmoother_setTarget(@, controls.knobs[6]),
     !.kneeMode        = ToggleMode(controls, e.kneeMode),
     !.kneeWidth       =
        CASE controls.toggles[1] = "TOGGLESWITCH_UP"     -> F0
          [] controls.toggles[1] = "TOGGLESWITCH_MIDDLE" -> K.c6
          [] controls.toggles[1] = "TOGGLESWITCH_DOWN"   -> K.c12
          [] OTHER -> e.kneeWidth]

Compressor_dim(ledValue) ==
  FSub(F1, FMul(IF FGt(ledValue, F1) THEN F1
                ELSE IF FLt(ledValue, F0) THEN F0 ELSE ledValue,
                K.c0_8))

Compressor_getLedState(e) == Compressor_dim(FDiv(e.gainReductionDb, K.c20))

\* the same without the clamp of the compressed sample
Compressor_output_unclipped(e, inputSample, envLevel, g) ==
  [ st  |-> [e EXCEPT !.envelope = envLevel, !.gainReductionDb = g.gainReductionDb],
    out |-> DryWet(inputSample,
                   FMul(FMul(inputSample, g.gain), e.smoothMakeup.currentValue),
                   e.smoothMix.currentValue),
    gain |-> g.gain ]

\* process, last part, with g the result of computeGain
Compressor_output(e, inputSample, envLevel, g) ==
  [ st  |-> [e EXCEPT !.envelope = envLevel, !.gainReductionDb = g.gainReductionDb],
    out |-> DryWet(inputSample,
                   hardClip(FMul(FMul(inputSample, g.gain), e.smoothMakeup.currentValue),
                            F1),
                   e.smoothMix.currentValue),
    gain |-> g.gain ]

Compressor_reduce(e, inputSample, envLevel) ==
  TheOne({ Compressor_output(e, inputSample, envLevel, g) :
             g \in {Compressor_computeGain(e, envLevel, e.smoothThreshold.currentValue,
                                           e.smoothRatio.currentValue)} })

\* process, after the smoothers were advanced: the envelope follower
Compressor_follow(e, inputSample) ==
  TheOne({ Compressor_reduce(e, inputSample, envLevel) :
             envLevel \in {Compressor_getEnvelope(e, inputSample,
                                                  e.smoothAttack.currentValue,
                                                  e.smoothRelease.currentValue)} })

Compressor_process(e0, inputSample) ==
  TheOne({ Compressor_follow(e, inputSample) : e \in {ProcessSmoothers(e0, CompressorSmoothers)} })

Compressor_reset(e) == [e EXCEPT !.envelope = F0, !.gainReductionDb = F0]

(***************************************************************************)
(* Virtual dispatch on HothouseEffect: an effect object is its class name  *)
(* (kind) with its fields.                                                 *)
(***************************************************************************)
EffectKinds ==
  {"Overdrive", "Distortion", "Fuzz", "Chorus", "Tremolo", "Delay", "Reverb", "Compressor"}

\* new Kind(sampleRate)
HothouseEffect_new(kind, sampleRate) ==
  [kind |-> kind] @@
  CASE kind = "Overdrive"  -> Overdrive_new(sampleRate)
    [] kind = "Distortion" -> Distortion_new(sampleRate)
    [] kind = "Fuzz"       -> Fuzz_new(sampleRate)
    [] kind = "Chorus"     -> Chorus_new(sampleRate)
    [] kind = "Tremolo"    -> Tremolo_new(sampleRate)
    [] kind = "Delay"      -> Delay_new(sampleRate)
    [] kind = "Reverb"     -> Reverb_new(sampleRate)
    [] kind = "Compressor" -> Compressor_new(sampleRate)

HothouseEffect_updateFromControls(e, controls) ==
  CASE e.kind = "Overdrive"  -> Overdrive_updateFromControls(e, controls)
    [] e.kind = "Distortion" -> Distortion_updateFromControls(e, controls)
    [] e.kind = "Fuzz"       -> Fuzz_updateFromControls(e, controls)
    [] e.kind = "Chorus"     -> Chorus_updateFromControls(e, controls)
    [] e.kind = "Tremolo"    -> Tremolo_updateFromControls(e, controls)
    [] e.kind = "Delay"      -> Delay_updateFromControls(e, controls)
    [] e.kind = "Reverb"     -> Reverb_updateFromControls(e, controls)
    [] e.kind = "Compressor" -> Compressor_updateFromControls(e, controls)

\* getLedState(): the HothouseEffect default 1.0f unless overridden
HothouseEffect_getLedState(e) ==
  CASE e.kind = "Chorus"     -> Chorus_getLedState(e)
    [] e.kind = "Tremolo"    -> Tremolo_getLedState(e)
    [] e.kind = "Compressor" -> Compressor_getLedState(e)
    [] OTHER -> F1

HothouseEffect_process(e, inputSample) ==
  CASE e.kind = "Overdrive"  -> Overdrive_process(e, inputSample)
    [] e.kind = "Distortion" -> Distortion_process(e, inputSample)
    [] e.kind = "Fuzz"       -> Fuzz_process(e, inputSample)
    [] e.kind = "Chorus"     -> Chorus_process(e, inputSample)
    [] e.kind = "Tremolo"    -> Tremolo_process(e, inputSample)
    [] e.kind = "Delay"      -> Delay_process(e, inputSample)
    [] e.kind = "Reverb"     -> Reverb_process(e, inputSample)
    [] e.kind = "Compressor" -> Compressor_process(e, inputSample)

HothouseEffect_reset(e) ==
  CASE e.kind = "Overdrive"  -> Overdrive_reset(e)
    [] e.kind = "Distortion" -> Distortion_reset(e)
    [] e.kind = "Fuzz"       -> Fuzz_reset(e)
    [] e.kind = "Chorus"     -> Chorus_reset(e)
    [] e.kind = "Tremolo"    -> Tremolo_reset(e)
    [] e.kind = "Delay"      -> Delay_reset(e)
    [] e.kind = "Reverb"     -> Reverb_reset(e)
    [] e.kind = "Compressor" -> Compressor_reset(e)

(***************************************************************************)
(* HothouseLeds and HothousePedal (hothouse.h).  A pedal holds a pointer to *)
(* an effect object that its caller owns: w is the pair of the pedal and   *)
(* the heap of effect objects, a pointer is the name of an object in the   *)
(* heap or "nullptr".                                                      *)
(***************************************************************************)
FOOTSWITCH_1 == 1

FOOTSWITCH_2 == 2

LED_1 == 1

LED_COUNT == 2

constrain(value, min, max) ==
  IF FLt(value, min) THEN min ELSE IF FGt(value, max) THEN max ELSE value

HothouseLeds_new == [i \in 1..LED_COUNT |-> F0]

HothouseLeds_set(leds, led, value) ==
  IF led <= LED_COUNT THEN [leds EXCEPT ![led] = constrain(value, F0, F1)] ELSE leds

HothouseConfig_new ==
  [sampleRate |-> 48000, bufferSize |-> 4, adcResolution |-> 24, dacResolution |-> 24]

HothousePedal_new(cfg) ==
  [ currentEffect |-> "nullptr", config |-> cfg, controls |-> HothouseControls_new,
    leds |-> HothouseLeds_new, bypassed |-> FALSE ]

HothousePedal_setEffect(w, effect) == [w EXCEPT !.pedal.currentEffect = effect]

\* the LED update as it would be if it read the effect before the snapshot was
\* forwarded to it
HothousePedal_updateLeds_early(w, newControls, bypassed, heap) ==
  [ pedal |-> [w.pedal EXCEPT
                 !.controls = newControls,
                 !.bypassed = bypassed,
                 !.leds = HothouseLeds_set(@, LED_1,
                            IF bypassed THEN F0
                            ELSE IF w.pedal.currentEffect # "nullptr"
                              THEN HothouseEffect_getLedState(w.heap[w.pedal.currentEffect])
                            ELSE F0)],
    heap |-> heap ]

\* updateControls, last part: the LED update, with bypassed already toggled and
\* the heap as the effect's updateFromControls left it
HothousePedal_updateLeds(w, newControls, bypassed, heap) ==
  [ pedal |-> [w.pedal EXCEPT
                 !.controls = newControls,
                 !.bypassed = bypassed,
                 !.leds = HothouseLeds_set(@, LED_1,
                            IF bypassed THEN F0
                            ELSE IF w.pedal.currentEffect # "nullptr"
                              THEN HothouseEffect_getLedState(heap[w.pedal.currentEffect])
                            ELSE F0)],
    heap  |-> heap ]

\* updateControls, middle part: the controls are forwarded to the effect
HothousePedal_updateEffect(w, newControls, bypassed) ==
  HothousePedal_updateLeds(w, newControls, bypassed,
    IF w.pedal.currentEffect # "nullptr"
    THEN [w.heap EXCEPT ![w.pedal.currentEffect] =
                           HothouseEffect_updateFromControls(@, newControls)]
    ELSE w.heap)

\* updateControls as it would be if it toggled on the held state, not the edge
HothousePedal_updateControls_onLevel(w, newControls) ==
  HothousePedal_updateEffect(w, newControls,
                             IF newControls.footswitchPressed[FOOTSWITCH_1]
                             THEN ~w.pedal.bypassed ELSE w.pedal.bypassed)

HothousePedal_updateControls(w, newControls) ==
  HothousePedal_updateEffect(w, newControls,
                             IF newControls.footswitchRisingEdge[FOOTSWITCH_1]
                             THEN ~w.pedal.bypassed ELSE w.pedal.bypassed)

HothousePedal_bypass(w, enable) == [w EXCEPT !.pedal.bypassed = enable]

\* process as it would be if it ignored the bypass flag
HothousePedal_process_always(w, inputSample) ==
  IF w.pedal.currentEffect = "nullptr"
  THEN [w |-> w, out |-> inputSample]
  ELSE TheOne({ [w |-> [w EXCEPT !.heap[w.pedal.currentEffect] = r.st], out |-> r.out] :
                  r \in {HothouseEffect_process(w.heap[w.pedal.currentEffect],
                                                inputSample)} })

\* process(inputSample): the pedal and heap afterwards, and the sample returned
HothousePedal_process(w, inputSample) ==
  IF w.pedal.bypassed \/ w.pedal.currentEffect = "nullptr"
  THEN [w |-> w, out |-> inputSample]
  ELSE TheOne({ [w |-> [w EXCEPT !.heap[w.pedal.currentEffect] = r.st], out |-> r.out] :
                  r \in {HothouseEffect_process(w.heap[w.pedal.currentEffect],
                                                inputSample)} })

\* the for loop of processBuffer from index i on; inputBuffer and outputBuffer are
\* addresses in the memory mem of floats
RECURSIVE processBuffer_loop(_, _, _, _, _, _)
processBuffer_loop(w, mem, inputBuffer, outputBuffer, numSamples, i) ==
  IF i < numSamples
  THEN \* r is what process(inputBuffer[i]) returned and left
       TheOne({ processBuffer_loop(r.w, [mem EXCEPT ![outputBuffer + i] = r.out],
                                   inputBuffer, outputBuffer, numSamples, i + 1) :
                  r \in {HothousePedal_process(w, mem[inputBuffer + i])} })
  ELSE [w |-> w, mem |-> mem]

\* processBuffer as it would be if it ran from the last sample to the first
RECURSIVE processBuffer_backward(_, _, _, _, _)
processBuffer_backward(w, mem, inputBuffer, outputBuffer, i) ==
  IF i >= 0
  THEN TheOne({ processBuffer_backward(r.w, [mem EXCEPT ![outputBuffer + i] = r.out],
                                       inputBuffer, outputBuffer, i - 1) :
                  r \in {HothousePedal_process(w, mem[inputBuffer + i])} })
  ELSE [w |-> w, mem |-> mem]

HothousePedal_processBuffer_backward(w, mem, inputBuffer, outputBuffer, numSamples) ==
  processBuffer_backward(w, mem, inputBuffer, outputBuffer, numSamples - 1)

HothousePedal_processBuffer(w, mem, inputBuffer, outputBuffer, numSamples) ==
  processBuffer_loop(w, mem, inputBuffer, outputBuffer, numSamples, 0)

(***************************************************************************)
(* deploy.cpp: the simulated hardware, audioCallback and main               *)
(***************************************************************************)
Hardware_new ==
  [ knobValues          |-> [i \in 1..6 |-> K.half],
    switchPositions     |-> [i \in 1..3 |-> "TOGGLESWITCH_MIDDLE"],
    footswitchPressed   |-> [i \in 1..2 |-> FALSE],
    lastFootswitchState |-> [i \in 1..2 |-> FALSE] ]

\* readFootswitchRisingEdge as it would be if it reported the level, not the edge
Hardware_readFootswitchRisingEdge_level(h, fs) ==
  [ h |-> [h EXCEPT !.lastFootswitchState[fs] = h.footswitchPressed[fs]],
    rising |-> h.footswitchPressed[fs] ]

\* readFootswitchRisingEdge(fs): the hardware state afterwards and the result
Hardware_readFootswitchRisingEdge(h, fs) ==
  LET current == h.footswitchPressed[fs]
      rising  == current /\ ~h.lastFootswitchState[fs]
  IN  [h |-> [h EXCEPT !.lastFootswitchState[fs] = current], rising |-> rising]

Hardware_readAllControls(h) ==
  LET r1 == Hardware_readFootswitchRisingEdge(h, FOOTSWITCH_1)
      r2 == Hardware_readFootswitchRisingEdge(r1.h, FOOTSWITCH_2)
  IN  [ h |-> r2.h,
        controls |-> [ knobs   |-> h.knobValues,
                       toggles |-> h.switchPositions,
                       footswitchRisingEdge |-> <<r1.rising, r2.rising>>,
                       footswitchPressed    |-> <<r1.h.footswitchPressed[FOOTSWITCH_1],
                                                  r2.h.footswitchPressed[FOOTSWITCH_2]>> ] ]

\* audioCallback as it would be if it processed the buffer before updateControls
audioCallback_update_late(w, rd, mem, inputBuffer, outputBuffer, numSamples) ==
  TheOne({ [ h |-> rd.h, w |-> HothousePedal_updateControls(r.w, rd.controls),
             mem |-> r.mem ] :
             r \in {HothousePedal_processBuffer(w, mem, inputBuffer, outputBuffer,
                                                numSamples)} })

\* audioCallback once the controls rd.controls were read
audioCallback_update(w, rd, mem, inputBuffer, outputBuffer, numSamples) ==
  [ h |-> rd.h ] @@
  HothousePedal_processBuffer(HothousePedal_updateControls(w, rd.controls),
                              mem, inputBuffer, outputBuffer, numSamples)

audioCallback(w, h, mem, inputBuffer, outputBuffer, numSamples) ==
  audioCallback_update(w, Hardware_readAllControls(h), mem, inputBuffer, outputBuffer,
                       numSamples)

VARIABLES
  sm,       \* a ParameterSmoother object
  smOp,     \* the member function called last on sm
  smPrev,   \* sm before that call
  smRet,    \* the value that call returned (F0 for a void function)
  smCalls,  \* number of calls made on sm
  stStart,  \* step response: the settled value the step started from
  stSamples,\* step response: smoothingMs / 1000 x sampleRate of the smoother
  stCount,  \* step response: process() calls since the step
  pedal,    \* the HothousePedal object
  heap,     \* the effect objects of the pedal's caller, by name
  hw,       \* the globals of namespace Hardware (deploy.cpp)
  mainPc,   \* where main() of deploy.cpp is: "setup" or "loop"
  fn,       \* the function called last on the pedal, an effect or the hardware
  arg,      \* its arguments
  pre,      \* pedal and heap before that call
  res,      \* what the call returned: a sample, or the caller's memory afterwards
  calls,    \* number of calls made
  hist      \* what has happened so far (see the specifications)

smVars == <<sm, smOp, smPrev, smRet, smCalls>>

stVars == <<stStart, stSamples, stCount>>

worldVars == <<pedal, heap, hw, mainPc, fn, arg, pre, res, calls, hist>>

vars == <<smVars, stVars, worldVars>>

\* pedal and heap as one value
World == [pedal |-> pedal, heap |-> heap]

NoHeap == [n \in {} |-> 0]

WorldIdle ==
  /\ pedal = HothousePedal_new(HothouseConfig_new) /\ heap = NoHeap
  /\ hw = Hardware_new /\ mainPc = "none"
  /\ fn = "none" /\ arg = <<>> /\ pre = World /\ res = F0 /\ calls = 0 /\ hist = <<>>

\* bounds of the smoother specifications
MaxSmootherCalls == 3

\* smoothing times (ms) and sample rates the smoother is configured with:
\* the effects' 20 ms at 48 kHz, zero and negative values, and a very long time
SmoothingTimes == {IntToFloat(20), F0, IntToFloat(-5), IntToFloat(1000000)}

SampleRates == {IntToFloat(48000), F0, IntToFloat(-48000)}

SmootherConfigs ==
  {<<ms, IntToFloat(48000)>> : ms \in SmoothingTimes}
    \cup {<<IntToFloat(20), sr>> : sr \in SampleRates}
    \cup {<<IntToFloat(2), IntToFloat(1000)>>}

\* control values: the ends and the middle of a knob's travel, and 0.955453217f
SmootherValues == {F0, Dec(1, 2), F1, Flt(0, 16029845, -24)}

SmIdle ==
  /\ sm = ParameterSmoother_new(IntToFloat(20), IntToFloat(48000), Dec(1, 2))
  /\ smOp = "none" /\ smPrev = sm /\ smRet = F0 /\ smCalls = 0

StIdle == stStart = F0 /\ stSamples = 0 /\ stCount = 0

SmInit ==
  /\ \E c \in SmootherConfigs, v \in SmootherValues :
       sm = ParameterSmoother_new(c[1], c[2], v)
  /\ smOp = "ParameterSmoother" /\ smPrev = sm /\ smRet = F0 /\ smCalls = 0
  /\ StIdle /\ WorldIdle

SmCall(op, next, ret) ==
  /\ smCalls < MaxSmootherCalls
  /\ sm' = next /\ smOp' = op /\ smPrev' = sm /\ smRet' = ret
  /\ smCalls' = smCalls + 1
  /\ UNCHANGED <<stVars, worldVars>>

SmSetSmoothing ==
  \E c \in SmootherConfigs :
    SmCall("setSmoothing", ParameterSmoother_setSmoothing(sm, c[1], c[2]), F0)

SmSetTarget ==
  \E v \in SmootherValues : SmCall("setTarget", ParameterSmoother_setTarget(sm, v), F0)

SmSetImmediate ==
  \E v \in SmootherValues :
    SmCall("setImmediate", ParameterSmoother_setImmediate(sm, v), F0)

SmProcess ==
  LET n == ParameterSmoother_process(sm) IN SmCall("process", n, n.currentValue)

SmGetValue == SmCall("getValue", sm, ParameterSmoother_getValue(sm))

SmNext == SmSetSmoothing \/ SmSetTarget \/ SmSetImmediate \/ SmProcess \/ SmGetValue

SpecSmoother == SmInit /\ [][SmNext]_vars

(***************************************************************************)
(* Step response of a ParameterSmoother: constructed settled at a value,   *)
(* given a new target, then advanced once per sample.                      *)
(***************************************************************************)
\* <<smoothingMs, sampleRate>> with smoothingMs / 1000 x sampleRate a whole number
StepConfigs == {<<20, 48000>>, <<2, 1000>>, <<1, 1000>>}

\* <<settled value, new target>>: full and half travel of a knob, a turn of 0.001
\* and of 0.00001 from mid travel, and one unit in the last place from 1.0
StepPairs ==
  { <<F0, F1>>, <<F1, F0>>, <<Dec(1, 2), F1>>, <<Dec(1, 2), Dec(501, 1000)>>,
    <<Dec(1, 2), Dec(50001, 100000)>>, <<F1, Flt(0, 8388609, -23)>> }

StInit ==
  /\ \E c \in StepConfigs, pr \in StepPairs :
       /\ sm = ParameterSmoother_setTarget(
                 ParameterSmoother_new(IntToFloat(c[1]), IntToFloat(c[2]), pr[1]), pr[2])
       /\ smPrev = ParameterSmoother_new(IntToFloat(c[1]), IntToFloat(c[2]), pr[1])
       /\ stStart = pr[1]
       /\ stSamples = (c[1] * c[2]) \div 1000
  /\ smOp = "setTarget" /\ smRet = F0 /\ smCalls = 0 /\ stCount = 0
  /\ WorldIdle

StProcess ==
  /\ stCount < stSamples
  /\ sm' = ParameterSmoother_process(sm)
  /\ smOp' = "process" /\ smPrev' = sm /\ smRet' = sm'.currentValue
  /\ stCount' = stCount + 1
  /\ UNCHANGED <<smCalls, stStart, stSamples, worldVars>>

StNext == StProcess

SpecStep == StInit /\ [][StNext]_vars

(***************************************************************************)
(* The pedal driven through its public interface: a caller that owns one   *)
(* object of each class in PedalEffects and a memory of floats calls        *)
(* setEffect, updateControls, bypass, process and processBuffer in any      *)
(* order.  hist counts the snapshots that carried the FOOTSWITCH_1 edge and *)
(* the bypass() calls.                                                      *)
(***************************************************************************)
MaxPedalCalls == 3

PedalEffects == {"Overdrive", "Chorus", "Delay", "Compressor"}

\* control snapshots: the defaults; a FOOTSWITCH_1 press; FOOTSWITCH_1 held while
\* FOOTSWITCH_2 is pressed; a FOOTSWITCH_1 edge without the held flag, toggle 1 in
\* no known position
Snapshots ==
  { HothouseControls_new,
    [ knobs   |-> <<Dec(1, 4), F1, F0, Dec(3, 4), K.half, F1>>,
      toggles |-> <<"TOGGLESWITCH_UP", "TOGGLESWITCH_MIDDLE", "TOGGLESWITCH_DOWN">>,
      footswitchRisingEdge |-> <<TRUE, FALSE>>, footswitchPressed |-> <<TRUE, FALSE>> ],
    [ knobs   |-> <<F1, Dec(1, 4), F1, F0, Dec(3, 4), F0>>,
      toggles |-> <<"TOGGLESWITCH_DOWN", "TOGGLESWITCH_UP", "TOGGLESWITCH_UP">>,
      footswitchRisingEdge |-> <<FALSE, TRUE>>, footswitchPressed |-> <<TRUE, TRUE>> ],
    [ knobs   |-> <<F0, K.half, Dec(1, 4), F1, F1, Dec(3, 4)>>,
      toggles |-> <<"TOGGLESWITCH_UNKNOWN", "TOGGLESWITCH_DOWN", "TOGGLESWITCH_MIDDLE">>,
      footswitchRisingEdge |-> <<TRUE, FALSE>>, footswitchPressed |-> <<FALSE, FALSE>> ] }

SampleInputs == {Dec(3, 4), FNeg(K.half)}

\* the caller's memory at a processBuffer call
CallerMemory == <<K.half, FNeg(Dec(1, 4)), Dec(3, 4), Dec(1, 8), FNeg(F1)>>

\* <<inputBuffer, outputBuffer, numSamples>>: separate buffers, in place, and
\* numSamples zero and negative
BufferCalls == {<<1, 4, 2>>, <<1, 1, 3>>, <<2, 2, 0>>, <<1, 4, -1>>}

PdInit ==
  /\ pedal = HothousePedal_new(HothouseConfig_new)
  /\ heap = [k \in PedalEffects |-> HothouseEffect_new(k, 48000)]
  /\ hw = Hardware_new /\ mainPc = "none"
  /\ fn = "HothousePedal" /\ arg = <<>> /\ pre = World /\ res = F0 /\ calls = 0
  /\ hist = [edges |-> 0, bypassCalls |-> 0]
  /\ SmIdle /\ StIdle

\* a call named f with arguments a that leaves the pedal and heap w and returns r
PdCall(f, a, w, r) ==
  /\ calls < MaxPedalCalls
  /\ pedal' = w.pedal /\ heap' = w.heap
  /\ fn' = f /\ arg' = a /\ pre' = World /\ res' = r
  /\ calls' = calls + 1
  /\ hist' = [edges |-> hist.edges +
                 (IF f = "updateControls" /\ a.footswitchRisingEdge[FOOTSWITCH_1] THEN 1 ELSE 0),
              bypassCalls |-> hist.bypassCalls + (IF f = "bypass" THEN 1 ELSE 0)]
  /\ UNCHANGED <<smVars, stVars, hw, mainPc>>

PdSetEffect ==
  \E e \in PedalEffects \cup {"nullptr"} :
    PdCall("setEffect", e, HothousePedal_setEffect(World, e), F0)

PdUpdateControls ==
  \E s \in Snapshots :
    PdCall("updateControls", s, HothousePedal_updateControls(World, s), F0)

PdBypass ==
  \E enable \in BOOLEAN :
    PdCall("bypass", enable, HothousePedal_bypass(World, enable), F0)

PdProcess ==
  \E x \in SampleInputs :
    \E r \in {HothousePedal_process(World, x)} : PdCall("process", x, r.w, r.out)

PdProcessBuffer ==
  \E c \in BufferCalls :
    \E r \in {HothousePedal_processBuffer(World, CallerMemory, c[1], c[2], c[3])} :
      PdCall("processBuffer", c, r.w, r.mem)

PdNext == PdSetEffect \/ PdUpdateControls \/ PdBypass \/ PdProcess \/ PdProcessBuffer

Spec == PdInit /\ [][PdNext]_vars

(***************************************************************************)
(* deploy.cpp running: main() has built the pedal and the Overdrive and    *)
(* is in its while (true) loop; between iterations the player works the    *)
(* footswitches and KNOB_1, which changes the globals in namespace Hardware.*)
(* res is main's memory: inputBuffer at addresses 1..4, outputBuffer at    *)
(* 5..8.  hist records the footswitch levels the control reads sampled:    *)
(*   level[i]   the level of FOOTSWITCH_i at the latest read               *)
(*   prev[i]    its level at the read before (released before the first)   *)
(*   held[i]    the number of consecutive reads, up to the latest, that    *)
(*              found it pressed                                           *)
(*   pulses[i]  the reads among those whose footswitchRisingEdge[i] was    *)
(*              true                                                       *)
(*   presses[i] the number of presses seen: reads that found it pressed    *)
(*              after a read that found it released                        *)
(***************************************************************************)
MaxCycles == 4

\* positions the player leaves KNOB_1 in
DeployKnobs == {K.half, F1}

\* main(), lines 129-140: config, pedal, overdrive, setEffect(&overdrive)
main_setup ==
  HothousePedal_setEffect(
    [ pedal |-> HothousePedal_new([HothouseConfig_new EXCEPT !.sampleRate = 48000,
                                                             !.bufferSize = 4]),
      heap  |-> [k \in {"Overdrive"} |-> HothouseEffect_new(k, 48000)] ],
    "Overdrive")

\* main's buffers are not initialized: v stands for what outputBuffer holds
DpInit ==
  /\ pedal = main_setup.pedal /\ heap = main_setup.heap
  /\ hw = Hardware_new /\ mainPc = "loop"
  /\ fn = "main" /\ arg = hw /\ pre = World /\ calls = 0
  /\ \E v \in {F0, K.half} : res = <<F0, F0, F0, F0, v, v, v, v>>
  /\ hist = [ level |-> <<FALSE, FALSE>>, prev |-> <<FALSE, FALSE>>,
              held |-> <<0, 0>>, pulses |-> <<0, 0>>, presses |-> <<0, 0>>,
              written |-> HothouseLeds_new ]
  /\ SmIdle /\ StIdle

\* hist after a control read that sampled the levels in h and reported controls
DpSampled(h, controls) ==
  [ level   |-> h.footswitchPressed,
    prev    |-> hist.level,
    held    |-> [i \in 1..2 |-> IF h.footswitchPressed[i] THEN hist.held[i] + 1 ELSE 0],
    pulses  |-> [i \in 1..2 |->
                   IF h.footswitchPressed[i]
                   THEN (IF hist.held[i] = 0 THEN 0 ELSE hist.pulses[i])
                        + (IF controls.footswitchRisingEdge[i] THEN 1 ELSE 0)
                   ELSE 0],
    presses |-> [i \in 1..2 |->
                   hist.presses[i]
                   + (IF h.footswitchPressed[i] /\ hist.held[i] = 0 THEN 1 ELSE 0)],
    written |-> hist.written ]

\* one iteration of main's loop: zero inputBuffer, audioCallback, writeLeds
MainLoop ==
  /\ mainPc = "loop" /\ calls < MaxCycles
  /\ \E r \in {audioCallback(World, hw, [i \in 1..8 |-> IF i <= 4 THEN F0 ELSE res[i]],
                             1, 5, pedal.config.bufferSize)} :
       /\ pedal' = r.w.pedal /\ heap' = r.w.heap /\ hw' = r.h /\ res' = r.mem
       /\ hist' = [DpSampled(hw, r.w.pedal.controls) EXCEPT
                     !.written = r.w.pedal.leds]
  /\ fn' = "audioCallback" /\ arg' = hw /\ pre' = World
  /\ calls' = calls + 1
  /\ UNCHANGED <<smVars, stVars, mainPc>>

\* the player presses or releases a footswitch
EnvFootswitch ==
  /\ \E fs \in {FOOTSWITCH_1, FOOTSWITCH_2} :
       hw' = [hw EXCEPT !.footswitchPressed[fs] = ~@]
  /\ UNCHANGED <<smVars, stVars, pedal, heap, mainPc, fn, arg, pre, res, calls, hist>>

\* the player turns KNOB_1
EnvKnob ==
  /\ \E v \in DeployKnobs : hw' = [hw EXCEPT !.knobValues[1] = v]
  /\ UNCHANGED <<smVars, stVars, pedal, heap, mainPc, fn, arg, pre, res, calls, hist>>

DpNext == MainLoop \/ EnvFootswitch \/ EnvKnob

SpecDeploy == DpInit /\ [][DpNext]_vars

(***************************************************************************)
(* One effect object driven through the HothouseEffect interface:          *)
(* updateFromControls, process and reset in any order.  heap holds the     *)
(* object under its class name; arg is <<class name, argument>>.           *)
(***************************************************************************)
MaxEffectCalls == 3

EfInit ==
  /\ pedal = HothousePedal_new(HothouseConfig_new)
  /\ \E k \in EffectKinds : heap = [n \in {k} |-> HothouseEffect_new(k, 48000)]
  /\ hw = Hardware_new /\ mainPc = "none"
  /\ fn = "HothouseEffect" /\ arg = <<>> /\ pre = World /\ res = F0 /\ calls = 0
  /\ hist = <<>>
  /\ SmIdle /\ StIdle

\* a call named f with argument a on the effect k, leaving it as e and returning r
EfCall(f, k, a, e, r) ==
  /\ calls < MaxEffectCalls
  /\ heap' = [heap EXCEPT ![k] = e]
  /\ fn' = f /\ arg' = <<k, a>> /\ pre' = World /\ res' = r
  /\ calls' = calls + 1
  /\ UNCHANGED <<smVars, stVars, pedal, hw, mainPc, hist>>

EfUpdateFromControls ==
  \E k \in DOMAIN heap : \E s \in Snapshots :
    EfCall("updateFromControls", k, s, HothouseEffect_updateFromControls(heap[k], s), F0)

EfProcess ==
  \E k \in DOMAIN heap : \E x \in SampleInputs :
    \E r \in {HothouseEffect_process(heap[k], x)} : EfCall("process", k, x, r.st, r.out)

EfReset ==
  \E k \in DOMAIN heap : EfCall("reset", k, <<>>, HothouseEffect_reset(heap[k]), F0)

EfNext == EfUpdateFromControls \/ EfProcess \/ EfReset

SpecEffects == EfInit /\ [][EfNext]_vars

\* the same with getLedState() among the calls; res is the brightness returned
EfGetLedState ==
  \E k \in DOMAIN heap :
    EfCall("getLedState", k, <<>>, heap[k], HothouseEffect_getLedState(heap[k]))

EfNextLed == EfNext \/ EfGetLedState

SpecEffectsLed == EfInit /\ [][EfNextLed]_vars

(***************************************************************************)
(* One effect object driven through a session: a list of phases, each a    *)
(* set of calls (updateFromControls with a snapshot, process with a        *)
(* sample, reset) of which any one is made, a given number of times.       *)
(* hist follows the session and the input since the last reset():          *)
(*   session, phase, made  the session, its current phase, calls made in it *)
(*   n          process calls since the last reset(), -1 before any reset() *)
(*   first      the first sample processed since the last reset()          *)
(*   tailZero   every later sample since the last reset() was 0.0f         *)
(*   probe      the locals the last process call reports besides its       *)
(*              result (idx, amplitude, gain)                              *)
(***************************************************************************)
\* a snapshot with the given knobs and TOGGLESWITCH_1 position, no footswitch
Controls(knobs, toggle1) ==
  [HothouseControls_new EXCEPT !.knobs = knobs, !.toggles[1] = toggle1]

Phase(allowed, times) == [calls |-> allowed, times |-> times]

Updates(snapshots) == {<<"updateFromControls", s>> : s \in snapshots}

Samples(inputs) == {<<"process", x>> : x \in inputs}

Resets == {<<"reset", <<>>>>}

\* knobs at both ends of their travel with each toggle position, and the
\* snapshots of the pedal specification
EndSnapshots ==
  { Controls(<<F0, F0, F0, F0, F0, F0>>, "TOGGLESWITCH_UP"),
    Controls(<<F1, F1, F1, F1, F1, F1>>, "TOGGLESWITCH_DOWN"),
    Controls(<<F0, F1, K.half, F1, F1, F0>>, "TOGGLESWITCH_MIDDLE") } \cup Snapshots

\* samples: silence, full scale, and one beyond full scale
SignalInputs == {F0, F1, FNeg(K.half), IntToFloat(-3)}

\* any call, with the controls and samples above
AnyCall == Updates(EndSnapshots) \cup Samples(SignalInputs) \cup Resets

\* length of the sessions that make any call
MaxSessionCalls == 3

\* samples of silence after which a write cursor has passed the end of its line
DelayLineRun == 48000

ShortLineRun == 4800

\* samples of silence after which the size of a Reverb in the hall room, on its
\* way from 0.5 to 1, has brought the comb feedback to its ceiling
SettleRun == 1300

\* the length of the longest comb filter of the Reverb
LongestComb ==
  CHOOSE d \in {baseCombDelays[i] : i \in 1..NUM_COMB_FILTERS} :
    \A j \in 1..NUM_COMB_FILTERS : baseCombDelays[j] <= d

\* controls of the sessions that end in silence, and the calls they make after
\* reset()
RestSnapshots ==
  { Controls(<<F0, F0, F0, F0, F0, F0>>, "TOGGLESWITCH_UP"),
    Controls(<<F1, F1, F1, F1, F1, F1>>, "TOGGLESWITCH_DOWN"),
    Controls(<<Dec(1, 4), K.half, Dec(3, 4), F1, K.half, Dec(3, 4)>>, "TOGGLESWITCH_MIDDLE") }

MaxRestCalls == 3

\* controls of a Tremolo: depth 0 in classic mode with the mix at 0.1, depth 0 in
\* harmonic and in opto mode, depth 1 in opto mode; the level is 1, the shape 0
DepthSnapshots ==
  { Controls(<<K.half, F0, F0, F1, K.half, Dec(1, 10)>>, "TOGGLESWITCH_UP"),
    Controls(<<K.half, F0, F0, F1, K.half, F1>>, "TOGGLESWITCH_MIDDLE"),
    Controls(<<K.half, F0, F0, F1, K.half, F1>>, "TOGGLESWITCH_DOWN"),
    Controls(<<K.half, F1, F0, F1, K.half, F1>>, "TOGGLESWITCH_DOWN") }

MaxDepthCalls == 4

\* controls of a Tremolo in classic and in harmonic mode: the rate at 20 Hz, the
\* depth at 0.5 and 1, the sine and the triangle wave; the level and the mix are 1
ModeSnapshots ==
  { Controls(<<F1, depth, shape, F1, K.half, F1>>, toggle1) :
      depth \in {K.half, F1}, shape \in {F0, K.half},
      toggle1 \in {"TOGGLESWITCH_UP", "TOGGLESWITCH_MIDDLE"} }

MaxModeCalls == 4

\* controls of a Compressor that is driven hard and then left to release: the
\* threshold at 0.01, the ratio at 20, the fastest attack and release, hard knee
MeterControls == Controls(<<F0, F1, F0, F0, F0, F1>>, "TOGGLESWITCH_UP")

\* samples of silence after which the envelope of that Compressor, released at
\* 0.9 per sample from below 1, is under the 0.0001 floor
MeterRun == 100

\* the sessions by name: the class and the sample rates of the object, and the
\* phases; the session named as a class is that of its objects that are driven,
\* reset and then fed silence
Sessions ==
  [ DelayLine |->
      [ kind |-> "Delay", sampleRates |-> {48000},
        phases |-> << Phase(Updates({Controls(<<Dec(1, 4), F1, F0, Dec(3, 4), K.half, F1>>,
                                              "TOGGLESWITCH_UP")}), 1),
                      Phase(Samples({Dec(3, 4)}), 2),
                      Phase(Resets, 1),
                      Phase(Samples({F0}), DelayLineRun) >> ],
    DelayFast |->
      [ kind |-> "Delay", sampleRates |-> {96000},
        phases |-> << Phase(AnyCall, MaxSessionCalls) >> ],
    DelaySlow |->
      [ kind |-> "Delay", sampleRates |-> {10},
        phases |-> << Phase(AnyCall, MaxSessionCalls) >> ],
    ChorusLine |->
      [ kind |-> "Chorus", sampleRates |-> {48000},
        phases |-> << Phase(Updates({Controls(<<F1, F1, F0, F0, F0, F1>>,
                                              "TOGGLESWITCH_MIDDLE")}), 1),
                      Phase(Samples({Dec(3, 4)}), 2),
                      Phase(Resets, 1),
                      Phase(Samples({F0}), ShortLineRun) >> ],
    ChorusFast |->
      [ kind |-> "Chorus", sampleRates |-> {384000},
        phases |-> << Phase(AnyCall, MaxSessionCalls) >> ],
    ChorusSlow |->
      [ kind |-> "Chorus", sampleRates |-> {10},
        phases |-> << Phase(AnyCall, MaxSessionCalls) >> ],
    ReverbLine |->
      [ kind |-> "Reverb", sampleRates |-> {48000},
        phases |-> << Phase(Updates({Controls(<<F1, F0, K.half, F1, F1, F1>>,
                                              "TOGGLESWITCH_DOWN")}), 1),
                      Phase(Samples({Dec(3, 4)}), 2),
                      Phase(Resets, 1),
                      Phase(Samples({F0}), ShortLineRun) >> ],
    ReverbSlow |->
      [ kind |-> "Reverb", sampleRates |-> {10},
        phases |-> << Phase(AnyCall, MaxSessionCalls) >> ],
    ReverbRooms |->
      [ kind |-> "Reverb", sampleRates |-> {48000},
        phases |-> << Phase(AnyCall, MaxSessionCalls) >> ],
    DelayAny |->
      [ kind |-> "Delay", sampleRates |-> {48000},
        phases |-> << Phase(AnyCall, MaxSessionCalls) >> ],
    CompressorAny |->
      [ kind |-> "Compressor", sampleRates |-> {48000},
        phases |-> << Phase(AnyCall, MaxSessionCalls) >> ],
    CompressorSlow |->
      [ kind |-> "Compressor", sampleRates |-> {50},
        phases |-> << Phase(AnyCall, MaxSessionCalls) >> ],
    ReverbImpulse |->
      [ kind |-> "Reverb", sampleRates |-> {48000},
        phases |-> << Phase(Updates({Controls(<<F1, F0, F0, F1, F1, F1>>,
                                              "TOGGLESWITCH_DOWN")}), 1),
                      Phase(Samples({F0}), SettleRun),
                      Phase(Resets, 1),
                      Phase(Samples({F1}), 1),
                      Phase(Samples({F0}), 10 * LongestComb) >> ],
    ReverbImpulseSlow |->
      [ kind |-> "Reverb", sampleRates |-> {50},
        phases |-> << Phase(Updates({Controls(<<F1, Dec(1, 4), F1, F1, F1, K.half>>,
                                              "TOGGLESWITCH_DOWN")}), 1),
                      Phase(Samples({Dec(3, 4)}), 1),
                      Phase(Resets, 1),
                      Phase(Samples({F1}), 1),
                      Phase(Samples({F0}), 10 * LongestComb) >> ],
    CompressorMeter |->
      [ kind |-> "Compressor", sampleRates |-> {50, 48000},
        phases |-> << Phase(Updates({MeterControls}), 1),
                      Phase(Samples({F1}), 2),
                      Phase(Samples({F0}), MeterRun),
                      Phase(Samples({F1}), 1) >> ],
    TremoloModes |->
      [ kind |-> "Tremolo", sampleRates |-> {50, 48000},
        phases |-> << Phase(Updates(ModeSnapshots) \cup Samples({Dec(3, 4)}) \cup Resets,
                            MaxModeCalls) >> ],
    TremoloDepth |->
      [ kind |-> "Tremolo", sampleRates |-> {50, 48000},
        phases |-> << Phase(Updates(DepthSnapshots) \cup Samples(SampleInputs) \cup Resets,
                            MaxDepthCalls) >> ] ]
  @@ [k \in EffectKinds |->
        [ kind |-> k, sampleRates |-> {48000, 50},
          phases |-> << Phase(Updates(RestSnapshots), 1),
                        Phase(Samples({F1}), 1),
                        Phase(Samples({IntToFloat(-3)}), 1),
                        Phase(Resets, 1),
                        Phase(Updates(RestSnapshots) \cup Samples({F0}), MaxRestCalls) >> ]]

\* the phase the session is in; no call is left after the last phase
SnPhases == Sessions[hist.session].phases

SnInit(sessions) ==
  /\ pedal = HothousePedal_new(HothouseConfig_new)
  /\ \E s \in sessions : \E sr \in Sessions[s].sampleRates :
       /\ heap = [n \in {Sessions[s].kind} |-> HothouseEffect_new(Sessions[s].kind, sr)]
       /\ hist = [session |-> s, phase |-> 1, made |-> 0,
                  n |-> -1, first |-> F0, tailZero |-> TRUE, probe |-> <<>>]
  /\ hw = Hardware_new /\ mainPc = "none"
  /\ fn = "HothouseEffect" /\ arg = <<>> /\ pre = World /\ res = F0 /\ calls = 0
  /\ SmIdle /\ StIdle

\* hist after the call f(a) that reported probe
SnHist(f, a, probe) ==
  [ session  |-> hist.session,
    phase    |-> IF hist.made + 1 >= SnPhases[hist.phase].times
                 THEN hist.phase + 1 ELSE hist.phase,
    made     |-> IF hist.made + 1 >= SnPhases[hist.phase].times THEN 0 ELSE hist.made + 1,
    n        |-> IF f = "reset" THEN 0
                 ELSE IF f = "process" /\ hist.n >= 0 THEN hist.n + 1 ELSE hist.n,
    first    |-> IF f = "reset" THEN F0
                 ELSE IF f = "process" /\ hist.n = 0 THEN a ELSE hist.first,
    tailZero |-> IF f = "reset" THEN TRUE
                 ELSE IF f = "process" /\ hist.n >= 1 THEN hist.tailZero /\ a = F0
                 ELSE hist.tailZero,
    probe    |-> probe ]

\* the call f(a) of the current phase on the effect k, leaving it as e, returning r
SnCall(f, k, a, e, r, probe) ==
  /\ hist.phase <= Len(SnPhases)
  /\ <<f, a>> \in SnPhases[hist.phase].calls
  /\ heap' = [heap EXCEPT ![k] = e]
  /\ fn' = f /\ arg' = <<k, a>> /\ pre' = World /\ res' = r
  /\ calls' = calls + 1
  /\ hist' = SnHist(f, a, probe)
  /\ UNCHANGED <<smVars, stVars, pedal, hw, mainPc>>

\* the calls of kind f that the current phase allows
SnArgs(f) ==
  IF hist.phase <= Len(SnPhases)
  THEN {c[2] : c \in {d \in SnPhases[hist.phase].calls : d[1] = f}}
  ELSE {}

SnUpdateFromControls ==
  \E k \in DOMAIN heap : \E s \in SnArgs("updateFromControls") :
    SnCall("updateFromControls", k, s, HothouseEffect_updateFromControls(heap[k], s), F0, <<>>)

SnProcess ==
  \E k \in DOMAIN heap : \E x \in SnArgs("process") :
    \E r \in {HothouseEffect_process(heap[k], x)} :
      SnCall("process", k, x, r.st, r.out, [f \in DOMAIN r \ {"st", "out"} |-> r[f]])

SnReset ==
  \E k \in DOMAIN heap : \E a \in SnArgs("reset") :
    SnCall("reset", k, a, HothouseEffect_reset(heap[k]), F0, <<>>)

SnNext == SnUpdateFromControls \/ SnProcess \/ SnReset

\* the delay lines: Delay, Chorus and the Reverb pre-delay, until the write
\* cursor has wrapped and at sample rates that reach both clamps
LineSessions ==
  {"DelayLine", "DelayFast", "DelaySlow", "ChorusLine", "ChorusFast", "ChorusSlow",
   "ReverbLine", "ReverbSlow"}

SpecLines == SnInit(LineSessions) /\ [][SnNext]_vars

\* a Reverb: any calls at 48 kHz and with immediate smoothers, and the long run
\* in the hall room with the size knob fully up
ReverbSessions == {"ReverbRooms", "ReverbSlow", "ReverbLine"}

SpecReverb == SnInit(ReverbSessions) /\ [][SnNext]_vars

\* a Delay: any calls at 48 kHz, and at 10 Hz, where the smoothers are immediate
\* and the line is 1 to 10 samples long, so that the feedback comes round
DelaySessions == {"DelayAny", "DelaySlow"}

SpecDelay == SnInit(DelaySessions) /\ [][SnNext]_vars

\* a Delay and a Chorus with immediate smoothers (10 Hz): the mix is the knob's
\* value from the first sample on, and the line is read 1 to 10 samples back
DrySessions == {"DelaySlow", "ChorusSlow"}

SpecDry == SnInit(DrySessions) /\ [][SnNext]_vars

\* a Tremolo whose depth knob goes to 0 in each mode, with immediate smoothers
\* (50 Hz) and at 48 kHz
\* a Tremolo in classic and harmonic mode over the first samples of its LFO
ModeSessions == {"TremoloModes"}

SpecModes == SnInit(ModeSessions) /\ [][SnNext]_vars

TremoloSessions == {"TremoloDepth"}

SpecTremolo == SnInit(TremoloSessions) /\ [][SnNext]_vars

\* a Compressor: any calls at 48 kHz and with immediate smoothers
CompressorSessions == {"CompressorAny", "CompressorSlow"}

SpecCompressor == SnInit(CompressorSessions) /\ [][SnNext]_vars

\* every effect driven, reset and fed silence between control updates, at 48 kHz
\* and with immediate smoothers, and the three delay lines fed silence for their
\* whole length
RestSessions == EffectKinds \cup {"DelayLine", "ChorusLine", "ReverbLine"}

SpecRest == SnInit(RestSessions) /\ [][SnNext]_vars

\* a Compressor driven into gain reduction and then fed silence until its
\* envelope is below the floor, and one with immediate smoothers under any calls
MeterSessions == {"CompressorMeter", "CompressorSlow"}

SpecMeter == SnInit(MeterSessions) /\ [][SnNext]_vars

\* a Reverb with the size knob fully up in the hall room, reset and fed a unit
\* impulse: at 48 kHz once the feedback has settled, and with immediate smoothers
ImpulseSessions == {"ReverbImpulse", "ReverbImpulseSlow"}

SpecImpulse == SnInit(ImpulseSessions) /\ [][SnNext]_vars

(***************************************************************************)
(* Compressor::computeGain on its own: a Compressor in each knee mode, and *)
(* computeGain(envLevel, threshold, ratio) called on it with arguments     *)
(* from GainInputs.  arg is <<envLevel, threshold, ratio>>, res the gain.  *)
(***************************************************************************)
MaxGainCalls == 2

\* thresholds 0.01 + knob * 0.99 for the knob at 0, 0.5 and 1
GainThresholds == {K.c0_01, FAdd(K.c0_01, FMul(K.half, K.c0_99)), F1}

\* ratios: the initial 0.25, and 1 + knob * 19 for the knob at 0 and 1
GainRatios == {K.c0_25, F1, K.c20}

\* envelope levels: silence, below and at the 0.0001 floor, the threshold, the
\* level whose dB value equals the threshold's, and levels up to beyond full scale
GainLevels(threshold) ==
  {F0, Dec(1, 20000), K.eps, threshold, FAdd(threshold, K.eps),
   Dec(1, 4), F1, IntToFloat(3)}

GainInputs ==
  UNION {{<<envLevel, threshold, ratio>> : envLevel \in GainLevels(threshold), ratio \in GainRatios} :
           threshold \in GainThresholds}

GnInit ==
  /\ pedal = HothousePedal_new(HothouseConfig_new)
  /\ \E e \in {HothouseEffect_new("Compressor", 48000)} :
       \E c \in {e} \cup {HothouseEffect_updateFromControls(e, Controls(HothouseControls_new.knobs, t)) :
                           t \in ToggleswitchPosition} :
         heap = [n \in {"Compressor"} |-> c]
  /\ hw = Hardware_new /\ mainPc = "none"
  /\ fn = "Compressor" /\ arg = <<>> /\ pre = World /\ res = F0 /\ calls = 0
  /\ hist = <<>>
  /\ SmIdle /\ StIdle

GnComputeGain ==
  /\ calls < MaxGainCalls
  /\ \E a \in GainInputs :
       \E g \in {Compressor_computeGain(heap["Compressor"], a[1], a[2], a[3])} :
         /\ heap' = [heap EXCEPT !["Compressor"].gainReductionDb = g.gainReductionDb]
         /\ fn' = "computeGain" /\ arg' = a /\ pre' = World /\ res' = g.gain
  /\ calls' = calls + 1
  /\ UNCHANGED <<smVars, stVars, pedal, hw, mainPc, hist>>

GnNext == GnComputeGain

SpecGain == GnInit /\ [][GnNext]_vars

(***************************************************************************)
(* The pedal with an effect in use: a caller that owns a Delay and a        *)
(* Tremolo installs one of them, sets the controls, plays a sample or a     *)
(* buffer through it, and then makes any calls: swaps the effect, switches  *)
(* the bypass, turns the controls, plays on.  hist holds the phase of the   *)
(* caller and the name of the call before the last one.                     *)
(***************************************************************************)
MaxSwapCalls == 3

SwapEffects == {"Delay", "Tremolo"}

\* the controls: the shortest delay time, feedback 0.5, level and mix at 1
SwapControls == Controls(<<F0, K.half, F1, F1, K.half, F1>>, "TOGGLESWITCH_UP")

\* the same with FOOTSWITCH_1 pressed at this read
SwapPress ==
  [SwapControls EXCEPT !.footswitchRisingEdge[FOOTSWITCH_1] = TRUE,
                       !.footswitchPressed[FOOTSWITCH_1] = TRUE]

SwapAnyCall ==
  {<<"setEffect", e>> : e \in SwapEffects \cup {"nullptr"}}
    \cup {<<"updateControls", s>> : s \in {SwapControls, SwapPress}}
    \cup {<<"bypass", b>> : b \in BOOLEAN}
    \cup {<<"process", x>> : x \in {F0, Dec(3, 4)}}
    \cup {<<"processBuffer", <<1, 4, 2>>>>}

SwapPhases ==
  << Phase({<<"setEffect", e>> : e \in SwapEffects}, 1),
     Phase({<<"updateControls", SwapControls>>}, 1),
     Phase({<<"process", Dec(3, 4)>>, <<"processBuffer", <<1, 4, 2>>>>}, 1),
     Phase(SwapAnyCall, MaxSwapCalls) >>

\* the effects run at 48 kHz, or at 10 Hz, where the smoothers are immediate and
\* the Delay is one sample long
SwInit ==
  /\ pedal = HothousePedal_new(HothouseConfig_new)
  /\ \E sr \in {10, 48000} : heap = [k \in SwapEffects |-> HothouseEffect_new(k, sr)]
  /\ hw = Hardware_new /\ mainPc = "none"
  /\ fn = "HothousePedal" /\ arg = <<>> /\ pre = World /\ res = F0 /\ calls = 0
  /\ hist = [phase |-> 1, made |-> 0, prev |-> "none", frozen |-> heap]
  /\ SmIdle /\ StIdle

\* process passes the sample through: the pedal is bypassed or has no effect
PassesThrough(p) == p.bypassed \/ p.currentEffect = "nullptr"

\* the call f(a) of the current phase, leaving the pedal and heap w, returning r;
\* hist.frozen is the heap as it was when the pedal last began to pass through
SwCall(f, a, w, r) ==
  /\ hist.phase <= Len(SwapPhases)
  /\ <<f, a>> \in SwapPhases[hist.phase].calls
  /\ pedal' = w.pedal /\ heap' = w.heap
  /\ fn' = f /\ arg' = a /\ pre' = World /\ res' = r
  /\ calls' = calls + 1
  /\ hist' = [ phase |-> IF hist.made + 1 >= SwapPhases[hist.phase].times
                          THEN hist.phase + 1 ELSE hist.phase,
               made  |-> IF hist.made + 1 >= SwapPhases[hist.phase].times
                          THEN 0 ELSE hist.made + 1,
               prev  |-> fn,
               frozen |-> IF PassesThrough(w.pedal) /\ ~PassesThrough(pedal)
                          THEN w.heap ELSE hist.frozen ]
  /\ UNCHANGED <<smVars, stVars, hw, mainPc>>

\* the arguments of the calls of f that the current phase allows
SwArgs(f) ==
  IF hist.phase <= Len(SwapPhases)
  THEN {c[2] : c \in {d \in SwapPhases[hist.phase].calls : d[1] = f}}
  ELSE {}

SwSetEffect ==
  \E e \in SwArgs("setEffect") :
    SwCall("setEffect", e, HothousePedal_setEffect(World, e), F0)

SwUpdateControls ==
  \E s \in SwArgs("updateControls") :
    SwCall("updateControls", s, HothousePedal_updateControls(World, s), F0)

SwBypass ==
  \E enable \in SwArgs("bypass") :
    SwCall("bypass", enable, HothousePedal_bypass(World, enable), F0)

SwProcess ==
  \E x \in SwArgs("process") :
    \E r \in {HothousePedal_process(World, x)} : SwCall("process", x, r.w, r.out)

SwProcessBuffer ==
  \E c \in SwArgs("processBuffer") :
    \E r \in {HothousePedal_processBuffer(World, CallerMemory, c[1], c[2], c[3])} :
      SwCall("processBuffer", c, r.w, r.mem)

SwNext == SwSetEffect \/ SwUpdateControls \/ SwBypass \/ SwProcess \/ SwProcessBuffer

SpecSwap == SwInit /\ [][SwNext]_vars

(***************************************************************************)
(* The soft-clip function on its own: Overdrive::softClip(sample, drive)   *)
(* and Distortion::softClip(sample) called with arguments from bounded     *)
(* sets.  arg is the argument list, res the value returned; hist keeps the *)
(* pre-scaled input of this call (x), and the pre-scaled input and the     *)
(* result of the call before (lastX, lastOut).                             *)
(***************************************************************************)
MaxClipCalls == 2

\* samples and drives of Overdrive::softClip: x = sample * (1 + drive * 9) is
\* exactly 1 for 0.1f at drive 1, and 1.1 for 0.11f
ClipSamples ==
  {FNeg(F1), FNeg(Dec(11, 100)), FNeg(Dec(1, 10)), F0, Dec(1, 10), Dec(11, 100), K.half, F1}

ClipDrives == {F0, K.half, F1}

\* arguments of Distortion::softClip: around both boundaries and beyond
ClipInputs ==
  {IntToFloat(-3), FNeg(Dec(8388609, 8388608)), FNeg(F1), FNeg(Dec(19, 20)), F0,
   Dec(9, 10), Dec(19, 20), F1, Dec(8388609, 8388608), IntToFloat(3)}

\* float x = sample * (1.0f + drive * 9.0f)
Overdrive_prescale(sample, drive) == FMul(sample, FAdd(F1, FMul(drive, K.c9)))

Overdrive_softClip(sample, drive) == SoftClipCurve(Overdrive_prescale(sample, drive))

Distortion_softClip(sample) == SoftClipCurve(sample)

ClInit ==
  /\ pedal = HothousePedal_new(HothouseConfig_new)
  /\ heap = [n \in {"Overdrive", "Distortion"} |-> HothouseEffect_new(n, 48000)]
  /\ hw = Hardware_new /\ mainPc = "none"
  /\ fn = "none" /\ arg = <<>> /\ pre = World /\ res = F0 /\ calls = 0
  /\ hist = [x |-> F0, lastX |-> F0, lastOut |-> F0]
  /\ SmIdle /\ StIdle

\* a call f(a) with the pre-scaled input x that returned r
ClCall(f, a, x, r) ==
  /\ fn' = f /\ arg' = a /\ pre' = World /\ res' = r
  /\ calls' = calls + 1
  /\ hist' = [x |-> x, lastX |-> hist.x, lastOut |-> res]
  /\ UNCHANGED <<smVars, stVars, pedal, heap, hw, mainPc>>

ClOverdrive ==
  /\ calls < MaxClipCalls
  /\ \E sample \in ClipSamples : \E drive \in ClipDrives :
       ClCall("Overdrive::softClip", <<sample, drive>>, Overdrive_prescale(sample, drive),
              Overdrive_softClip(sample, drive))

ClDistortion ==
  /\ calls < MaxClipCalls
  /\ \E sample \in ClipInputs :
       ClCall("Distortion::softClip", <<sample>>, sample, Distortion_softClip(sample))

ClNext == ClOverdrive \/ ClDistortion

SpecClip == ClInit /\ [][ClNext]_vars

(***************************************************************************)
(* Claims                                                                  *)
(***************************************************************************)
\* C1: updateControls(s) flips the bypass flag exactly once if
\* s.footswitchRisingEdge[FOOTSWITCH_1], and leaves it unchanged otherwise,
\* whatever the held state and the other fields are; from a new pedal and without
\* bypass() calls the pedal is bypassed iff an odd number of snapshots carried the
\* edge.
C1_ToggleOnEdge ==
  /\ fn = "updateControls" =>
       pedal.bypassed = (IF arg.footswitchRisingEdge[FOOTSWITCH_1]
                         THEN ~pre.pedal.bypassed ELSE pre.pedal.bypassed)
  /\ hist.bypassCalls = 0 => (pedal.bypassed <=> hist.edges % 2 = 1)

\* a snapshot that holds FOOTSWITCH_1 without an edge arrived after an edge had
\* bypassed the pedal, and left it bypassed
C1_Witness ==
  /\ fn = "updateControls" /\ hist.bypassCalls = 0 /\ hist.edges = 1
  /\ arg.footswitchPressed[FOOTSWITCH_1] /\ ~arg.footswitchRisingEdge[FOOTSWITCH_1]
  /\ pre.pedal.bypassed /\ pedal.bypassed

\* C2: process(x) returns exactly x when the pedal is bypassed or no effect is
\* installed, and leaves every object alone; in every other state it returns what
\* the active effect's process(x) returns (and the effect is left as that call
\* leaves it).
C2_ProcessDelegates ==
  fn = "process" =>
    IF pre.pedal.bypassed \/ pre.pedal.currentEffect = "nullptr"
    THEN res = arg /\ World = pre
    ELSE \E r \in {HothouseEffect_process(pre.heap[pre.pedal.currentEffect], arg)} :
           /\ res = r.out
           /\ pedal = pre.pedal
           /\ heap = [pre.heap EXCEPT ![pre.pedal.currentEffect] = r.st]

\* a bypassed pedal with an effect installed returned its input
C2_Witness ==
  /\ fn = "process" /\ pre.pedal.bypassed /\ pre.pedal.currentEffect # "nullptr"
  /\ res = arg

\* C3: updateControls applies the snapshot's bypass toggle, forwards the snapshot
\* to the installed effect (also while bypassed), then recomputes LED_1: 0 if the
\* pedal is now bypassed or no effect is installed, otherwise the effect's
\* getLedState() read after the forwarding, clamped to [0,1].
C3_UpdateOrder ==
  fn = "updateControls" =>
    /\ pedal.controls = arg
    /\ pedal.bypassed = (IF arg.footswitchRisingEdge[FOOTSWITCH_1]
                         THEN ~pre.pedal.bypassed ELSE pre.pedal.bypassed)
    /\ pedal.currentEffect = pre.pedal.currentEffect
    /\ heap = IF pre.pedal.currentEffect = "nullptr" THEN pre.heap
              ELSE [pre.heap EXCEPT
                      ![pre.pedal.currentEffect] = HothouseEffect_updateFromControls(@, arg)]
    /\ pedal.leds[LED_1] =
         IF pedal.bypassed \/ pre.pedal.currentEffect = "nullptr" THEN F0
         ELSE constrain(HothouseEffect_getLedState(heap[pre.pedal.currentEffect]), F0, F1)

\* the snapshot switched the Chorus to its square wave: LED_1 shows the state the
\* effect has after the forwarding, not the one it had before
C3_Witness ==
  /\ fn = "updateControls" /\ pre.pedal.currentEffect = "Chorus" /\ ~pedal.bypassed
  /\ pedal.leds[LED_1] = F1
  /\ HothouseEffect_getLedState(pre.heap["Chorus"]) # F1

\* the pedal and the memory after out[i] = process(in[i]), if the call c =
\* <<in, out, N>> has a sample i; s is the pedal and the memory before
C4_Sample(s, c, i) ==
  IF i < c[3]
  THEN TheOne({ [w |-> r.w, mem |-> [s.mem EXCEPT ![c[2] + i] = r.out]] :
                  r \in {HothousePedal_process(s.w, s.mem[c[1] + i])} })
  ELSE s

C4_FromSecond(s, c) == TheOne({ C4_Sample(t, c, 2) : t \in {C4_Sample(s, c, 1)} })

\* the process calls for samples 0, 1 and 2 of the call c, one after the other
C4_Successive(s, c) == TheOne({ C4_FromSecond(t, c) : t \in {C4_Sample(s, c, 0)} })

\* C4: processBuffer(in, out, N) leaves the pedal, the effect and the memory as N
\* successive process calls in index order do, out[i] being process(in[i]) in the
\* state left by the samples before; also with in = out; N <= 0 writes nothing.
\* (The calls made have at most three samples.)
C4_SampleBySample ==
  fn = "processBuffer" =>
    /\ arg[3] <= 3
    /\ [w |-> World, mem |-> res] = C4_Successive([w |-> pre, mem |-> CallerMemory], arg)
    /\ arg[3] <= 0 => res = CallerMemory /\ World = pre

\* three samples were processed in place by an installed effect
C4_Witness ==
  /\ fn = "processBuffer" /\ arg = <<1, 1, 3>>
  /\ ~pre.pedal.bypassed /\ pre.pedal.currentEffect = "Delay"
  /\ res # CallerMemory /\ heap # pre.heap

\* C5: at every control read, footswitchRisingEdge[i] is true iff FOOTSWITCH_i is
\* pressed at this read and was released at the read before (initially released),
\* and footswitchPressed[i] is the level; so over the consecutive reads that find
\* the switch held there is exactly one pulse, and bypass has toggled once per
\* press.
C5_OnePulsePerPress ==
  fn = "audioCallback" =>
    /\ \A i \in {FOOTSWITCH_1, FOOTSWITCH_2} :
         /\ pedal.controls.footswitchRisingEdge[i] <=> (hist.level[i] /\ ~hist.prev[i])
         /\ pedal.controls.footswitchPressed[i] <=> hist.level[i]
         /\ hist.held[i] >= 1 => hist.pulses[i] = 1
    /\ pedal.bypassed <=> hist.presses[FOOTSWITCH_1] % 2 = 1

\* FOOTSWITCH_1 was found held by two or more reads in a row: one pulse, and the
\* pedal was bypassed once
C5_Witness ==
  /\ fn = "audioCallback" /\ hist.held[FOOTSWITCH_1] >= 2
  /\ hist.pulses[FOOTSWITCH_1] = 1 /\ hist.presses[FOOTSWITCH_1] = 1
  /\ ~pedal.controls.footswitchRisingEdge[FOOTSWITCH_1] /\ pedal.bypassed

\* lo <= x <= hi for the two bounds in either order
Between(a, x, b) ==
  /\ FLe(IF FLt(a, b) THEN a ELSE b, x)
  /\ FLe(x, IF FLt(a, b) THEN b ELSE a)

\* C6: every process() returns a value lying between the previous current value
\* and the target (inclusive), for any interleaving of setTarget and process.
C6_NoOvershoot ==
  smOp = "process" =>
    /\ smRet = sm.currentValue
    /\ Between(smPrev.currentValue, smRet, smPrev.targetValue)

\* C7: after construction or setSmoothing, for every smoothingMs and sampleRate,
\* the coefficient is in [0,1).
C7_CoefficientInUnitInterval ==
  smOp \in {"ParameterSmoother", "setSmoothing"} =>
    FLe(F0, sm.coefficient) /\ FLt(sm.coefficient, F1)

\* C8: N = smoothingMs/1000 x sampleRate process() calls after a step of the target
\* from a settled value, the remaining gap is at most 37% of the initial gap.
C8_OneTimeConstant ==
  (stSamples >= 1 /\ stCount = stSamples) =>
    FLe(FMul(IntToFloat(100), FAbs(FSub(sm.targetValue, sm.currentValue))),
        FMul(IntToFloat(37), FAbs(FSub(sm.targetValue, stStart))))

\* C9: setTarget changes only the target; getValue changes nothing and returns the
\* current value; setImmediate sets current and target to v, and a process() that
\* follows returns v; process() changes neither the target nor the coefficient.
C9_FrameConditions ==
  /\ smOp = "setTarget" =>
       /\ sm.currentValue = smPrev.currentValue
       /\ sm.coefficient = smPrev.coefficient
  /\ smOp = "getValue" => sm = smPrev /\ smRet = sm.currentValue
  /\ smOp = "setImmediate" =>
       /\ sm.currentValue = sm.targetValue
       /\ sm.coefficient = smPrev.coefficient
  /\ smOp = "process" =>
       /\ sm.targetValue = smPrev.targetValue
       /\ sm.coefficient = smPrev.coefficient
       /\ smPrev.currentValue = smPrev.targetValue => smRet = smPrev.targetValue

\* the ParameterSmoother members of the effects
C10_SmootherFields ==
  { "smoothDrive", "smoothTone", "smoothBass", "smoothLevel", "smoothMix", "smoothGain",
    "smoothFuzz", "smoothGate", "smoothRate", "smoothDepth", "smoothShape", "smoothTime",
    "smoothFeedback", "smoothFilter", "smoothSize", "smoothDamping", "smoothPredelay",
    "smoothThreshold", "smoothRatio", "smoothAttack", "smoothRelease", "smoothMakeup" }

\* the members set from TOGGLESWITCH_1: the mode selectors and the multiplier or
\* width that goes with them
C10_ModeFields ==
  { "voicing", "clipMode", "character", "waveform", "mode", "timeMultiplier", "roomType",
    "sizeMultiplier", "kneeMode", "kneeWidth" }

\* C10: for each of the eight effects, updateFromControls(snapshot) changes only
\* smoother targets and the mode selector with its multiplier or width: no
\* smoother's current value (or coefficient), and no buffer, filter state, cursor,
\* LFO phase or envelope.
C10_UpdateTouchesTargetsOnly ==
  fn = "updateFromControls" =>
    /\ DOMAIN heap[arg[1]] = DOMAIN pre.heap[arg[1]]
    /\ \A n \in DOMAIN heap[arg[1]] :
         IF n \in C10_SmootherFields
         THEN /\ heap[arg[1]][n].currentValue = pre.heap[arg[1]][n].currentValue
              /\ heap[arg[1]][n].coefficient = pre.heap[arg[1]][n].coefficient
         ELSE n \in C10_ModeFields \/ heap[arg[1]][n] = pre.heap[arg[1]][n]

\* a Delay that has a sample in its line and its level on the way to an earlier
\* target was given new targets
C10_Witness ==
  /\ fn = "updateFromControls" /\ arg[1] = "Delay"
  /\ heap["Delay"].delayBuffer # BufClear
  /\ pre.heap["Delay"].smoothLevel.currentValue # pre.heap["Delay"].smoothLevel.targetValue
  /\ heap["Delay"].smoothLevel.targetValue # pre.heap["Delay"].smoothLevel.targetValue


\* the capacity of the delay line of a Delay, a Chorus or a Reverb (pre-delay)
LineCapacity(e) ==
  CASE e.kind = "Delay"  -> MAX_DELAY_SAMPLES
    [] e.kind = "Chorus" -> MAX_CHORUS_DELAY
    [] e.kind = "Reverb" -> MAX_PREDELAY

\* its write cursor and its cells that do not hold 0.0f
LineCursor(e) == IF e.kind = "Reverb" THEN e.predelayWriteIndex ELSE e.writeIndex

LineCells(e) == IF e.kind = "Reverb" THEN DOMAIN e.predelayBuffer ELSE DOMAIN e.delayBuffer

\* (write index - read index) modulo the capacity: the delay length of an access
LineDelay(idx, capacity) == (idx[2] - idx[1]) % capacity

\* C11: in every state of a Delay, a Chorus and a Reverb the write cursor of the
\* delay line is in [0, capacity) and every cell written lies in the buffer; on
\* every process call the index written and the index read are in [0, capacity),
\* they differ, and the delay length between them is in [1, capacity - 1].
C11_IndexSafety ==
  \A k \in DOMAIN heap :
    /\ LineCursor(heap[k]) \in 0..(LineCapacity(heap[k]) - 1)
    /\ LineCells(heap[k]) \subseteq 0..(LineCapacity(heap[k]) - 1)
    /\ fn = "process" =>
         /\ hist.probe.idx[1] \in 0..(LineCapacity(heap[k]) - 1)
         /\ hist.probe.idx[2] \in 0..(LineCapacity(heap[k]) - 1)
         /\ hist.probe.idx[1] # hist.probe.idx[2]
         /\ LineDelay(hist.probe.idx, LineCapacity(heap[k])) \in 1..(LineCapacity(heap[k]) - 1)

\* a process call of a Delay whose delay length was clamped to capacity - 1: the
\* read index, wrapped, lies one cell after the write index
C11_Witness ==
  /\ fn = "process" /\ DOMAIN heap = {"Delay"}
  /\ LineDelay(hist.probe.idx, MAX_DELAY_SAMPLES) = MAX_DELAY_SAMPLES - 1
  /\ hist.probe.idx[1] = hist.probe.idx[2] + 1

\* a process call wrote the last cell of a line and moved the write cursor to 0
C11_CursorWrapped ==
  fn = "process" /\ \E k \in DOMAIN heap :
    hist.probe.idx[2] = LineCapacity(heap[k]) - 1 /\ LineCursor(heap[k]) = 0

\* the delay length of an access was clamped to capacity - 1 / to 1
C11_UpperClamp ==
  fn = "process" /\ \E k \in DOMAIN heap :
    LineDelay(hist.probe.idx, LineCapacity(heap[k])) = LineCapacity(heap[k]) - 1

C11_LowerClamp ==
  fn = "process" /\ \E k \in DOMAIN heap :
    LineDelay(hist.probe.idx, LineCapacity(heap[k])) = 1

\* C12: after every Reverb.process call the four comb filters hold the same
\* feedback, and it is at least 0.5, at most 0.95 and below 1.
C12_FeedbackCeiling ==
  fn = "process" =>
    \A k \in DOMAIN heap :
      /\ \A i \in 1..NUM_COMB_FILTERS :
           heap[k].combFilters[i].feedback = heap[k].combFilters[1].feedback
      /\ FGe(heap[k].combFilters[1].feedback, K.half)
      /\ FLe(heap[k].combFilters[1].feedback, K.c0_95)
      /\ FLt(heap[k].combFilters[1].feedback, F1)

\* a process call whose 0.5f + size * sizeMultiplier * 0.35f was above 0.95f and
\* that set the feedback 0.95f
C12_Witness ==
  /\ fn = "process"
  /\ \E k \in DOMAIN heap :
       /\ FGt(FAdd(K.half, FMul(FMul(heap[k].smoothSize.currentValue,
                                     heap[k].sizeMultiplier), K.c0_35)),
              K.c0_95)
       /\ heap[k].combFilters[1].feedback = K.c0_95

\* C13: a Reverb whose comb feedback is 0.95 and whose input since reset() is a
\* unit impulse (1 followed by zeros) returns samples within [-1, 1], over 10
\* times the longest comb filter length.
C13_ImpulseBounded ==
  ( /\ fn = "process" /\ hist.n >= 1 /\ hist.first = F1 /\ hist.tailZero
    /\ \A k \in DOMAIN heap : heap[k].combFilters[1].feedback = K.c0_95 )
  => FLe(FAbs(res), F1)

\* an echo of the impulse: a later sample, with silence as its input and the
\* feedback at 0.95 before and after the call, that is not 0.0f
C13_Witness ==
  /\ fn = "process" /\ hist.n >= 2 /\ hist.first = F1 /\ hist.tailZero
  /\ \A k \in DOMAIN heap :
       /\ heap[k].combFilters[1].feedback = K.c0_95
       /\ pre.heap[k].combFilters[1].feedback = K.c0_95
  /\ ~FEq(res, F0)

\* 20.0f * log10f(envLevel) and 20.0f * log10f(threshold + 0.0001f) of a
\* computeGain call with the arguments a
C14_EnvDb(a) == FMul(K.c20, Log10f(a[1]))

C14_ThreshDb(a) == FMul(K.c20, Log10f(FAdd(a[2], K.eps)))

\* threshDb + (envDb - threshDb) / ratio - envDb
C14_GainDb(envDb, threshDb, ratio) ==
  FSub(FAdd(threshDb, FDiv(FSub(envDb, threshDb), ratio)), envDb)

C14_Above(a, gainDb) ==
  /\ res = Pow10f(FDiv(gainDb, K.c20))
  /\ heap["Compressor"].gainReductionDb = FNeg(gainDb)

C14_Computed(a, envDb, threshDb) ==
  IF FGt(envDb, threshDb)
  THEN C14_Above(a, C14_GainDb(envDb, threshDb, a[3]))
  ELSE res = F1 /\ FEq(heap["Compressor"].gainReductionDb, F0)

\* C14: in hard-knee mode computeGain returns the gain 1 (0 dB of reduction) when
\* the envelope level in dB equals the threshold in dB or is below it, and
\* otherwise the gain of threshDb + (envDb - threshDb) / ratio - envDb dB.
C14_HardKnee ==
  (fn = "computeGain" /\ pre.heap["Compressor"].kneeMode = 0) =>
    IF FLt(arg[1], K.eps) THEN res = F1
    ELSE C14_Computed(arg, C14_EnvDb(arg), C14_ThreshDb(arg))

\* a hard-knee call with envDb == threshDb, a ratio other than 1 and a knee width
\* other than 0, answered with the gain 1
C14_Witness ==
  /\ fn = "computeGain" /\ pre.heap["Compressor"].kneeMode = 0
  /\ ~FEq(pre.heap["Compressor"].kneeWidth, F0)
  /\ ~FLt(arg[1], K.eps) /\ arg[3] = K.c20
  /\ FEq(C14_EnvDb(arg), C14_ThreshDb(arg))
  /\ res = F1

\* C15: Compressor.process returns a sample within [-1, 1] for every input
\* sample within [-1, 1], whatever the controls and the calls before were.
C15_OutputBounded ==
  (fn = "process" /\ FLe(FAbs(arg[2]), F1)) => FLe(FAbs(res), F1)

\* a process call whose input * gain * makeup was beyond full scale: with the mix
\* at 1 the clamped sample is returned
C15_Witness ==
  /\ fn = "process" /\ FLe(FAbs(arg[2]), F1)
  /\ FGt(FAbs(FMul(FMul(arg[2], hist.probe.gain),
                   heap["Compressor"].smoothMakeup.currentValue)), F1)
  /\ heap["Compressor"].smoothMix.currentValue = F1
  /\ FEq(FAbs(res), F1)

\* C16: in every state of a Delay every cell of the delay buffer holds a value
\* within [-1, 1], whatever samples (also beyond full scale) and controls came.
C16_CellsBounded ==
  \A k \in DOMAIN heap :
    \A i \in DOMAIN heap[k].delayBuffer : FLe(FAbs(heap[k].delayBuffer[i]), F1)

\* a process call with an input within [-1, 1] whose input + filterState * feedback
\* was beyond full scale: the cell written holds full scale
C16_Witness ==
  /\ fn = "process" /\ FLe(FAbs(arg[2]), F1)
  /\ \E k \in DOMAIN heap :
       /\ FGt(FAbs(FAdd(arg[2], FMul(heap[k].filterState,
                                     heap[k].smoothFeedback.currentValue))), F1)
       /\ FEq(FAbs(BufRead(heap[k].delayBuffer, hist.probe.idx[2])), F1)

\* C17: on every effect, every process call since the last reset() whose input
\* and all inputs before it since that reset() are 0.0f returns 0.0f.
C17_SilenceAfterReset ==
  (fn = "process" /\ hist.n >= 1 /\ hist.first = F0 /\ hist.tailZero) => FEq(res, F0)

\* a Delay that was fed samples and reset has returned 0.0f for each of the
\* samples of silence that followed
C17_Witness ==
  /\ fn = "process" /\ DOMAIN heap = {"Delay"}
  /\ hist.n = MaxRestCalls /\ hist.first = F0 /\ hist.tailZero
  /\ FEq(res, F0)

C19_DepthZeroNoOp ==
  fn = "process" =>
    \A k \in DOMAIN heap :
      FEq(heap[k].smoothDepth.currentValue, F0) =>
        /\ hist.probe.amplitude = F1
        /\ FEq(res, FMul(arg[2], heap[k].smoothLevel.currentValue))

\* the two ways the code departs from C19: with the depth 0 the opto cell is
\* still below 1.0; with the amplitude 1.0 the blend of the input with itself is
\* not the input
C19_OptoLags ==
  /\ fn = "process" /\ heap["Tremolo"].mode = 2
  /\ FEq(heap["Tremolo"].smoothDepth.currentValue, F0)
  /\ FLt(hist.probe.amplitude, F1)

C19_BlendRounds ==
  /\ fn = "process" /\ heap["Tremolo"].mode = 0
  /\ FEq(heap["Tremolo"].smoothDepth.currentValue, F0)
  /\ hist.probe.amplitude = F1
  /\ ~FEq(res, FMul(arg[2], heap["Tremolo"].smoothLevel.currentValue))

\* with the depth 0 the amplitude is 1.0 in classic and harmonic mode, and in
\* opto mode when the opto cell was at 1.0 before the call
C19_AmplitudeOtherwise ==
  fn = "process" =>
    \A k \in DOMAIN heap :
      ( /\ FEq(heap[k].smoothDepth.currentValue, F0)
        /\ heap[k].mode = 2 => pre.heap[k].optoState = F1 )
      => hist.probe.amplitude = F1

(***************************************************************************)
(* C20: one control update per buffer, before its first sample              *)
(***************************************************************************)
\* what updateControls sets and process reads of the deployed pedal: the bypass
\* flag, the voicing and the targets of the effect's smoothers
C20_Settings(w) ==
  [ bypassed |-> w.pedal.bypassed,
    voicing  |-> w.heap[w.pedal.currentEffect].voicing,
    targets  |-> [i \in 1..5 |->
                    w.heap[w.pedal.currentEffect][OverdriveSmoothers[i]].targetValue] ]

\* the pedal after updateControls with the controls read from the hardware arg,
\* and main's buffers: inputBuffer zeroed, outputBuffer about to be overwritten
C20_Updated ==
  [ w   |-> HothousePedal_updateControls(pre, Hardware_readAllControls(arg).controls),
    mem |-> [i \in 1..8 |-> IF i <= 4 THEN F0 ELSE res[i]] ]

\* the pedal and the memory before the first process call of the buffer c and
\* after each of its four process calls
C20_Trace(s, c) ==
  TheOne({ TheOne({ TheOne({ <<s, s1, s2, s3, C4_Sample(s3, c, 3)>> :
                               s3 \in {C4_Sample(s2, c, 2)} }) :
                      s2 \in {C4_Sample(s1, c, 1)} }) :
             s1 \in {C4_Sample(s, c, 0)} })

\* C20: every audioCallback reads the controls once and calls updateControls once,
\* before the first sample: the pedal, the effect and the output buffer afterwards
\* are those of updateControls with the controls read followed by the process
\* calls of the buffer's samples in order, and the bypass flag, the voicing and
\* every smoother target are the same before the first process call and after
\* each process call of the buffer.
C20_UpdateThenBuffer ==
  fn = "audioCallback" =>
    \A t \in {C20_Trace(C20_Updated, <<1, 5, pre.pedal.config.bufferSize>>)} :
      /\ pre.pedal.config.bufferSize = 4
      /\ [w |-> World, mem |-> res] = t[5]
      /\ \A i \in 1..5 : C20_Settings(t[i].w) = C20_Settings(t[1].w)
      /\ hw.lastFootswitchState = Hardware_readAllControls(arg).h.lastFootswitchState

\* a callback whose update moved a smoother target and took the pedal out of
\* bypass, and whose four samples then moved the effect towards the new target
C20_Witness ==
  /\ fn = "audioCallback" /\ pre.pedal.bypassed /\ ~pedal.bypassed
  /\ C20_Settings(World).targets # C20_Settings(pre).targets
  /\ heap # C20_Updated.w.heap
  /\ heap["Overdrive"].smoothDrive.currentValue
       # pre.heap["Overdrive"].smoothDrive.currentValue

(***************************************************************************)
(* C21: the ratio the gain computer runs with                               *)
(***************************************************************************)
\* C21: after every Compressor.process call the ratio it passed to computeGain
\* (smoothRatio's value after its step) lies in [1, 20].
C21_RatioInRange ==
  fn = "process" =>
    \A k \in DOMAIN heap :
      heap[k].kind = "Compressor" =>
        /\ FGe(heap[k].smoothRatio.currentValue, F1)
        /\ FLe(heap[k].smoothRatio.currentValue, K.c20)

\* the ratio never exceeds 20, and every target set by updateFromControls is in
\* [1, 20]
C21_AtMostTwenty ==
  \A k \in DOMAIN heap :
    heap[k].kind = "Compressor" =>
      /\ FLe(heap[k].smoothRatio.currentValue, K.c20)
      /\ fn = "updateFromControls" =>
           /\ FGe(heap[k].smoothRatio.targetValue, F1)
           /\ FLe(heap[k].smoothRatio.targetValue, K.c20)

\* a process call on a Compressor whose controls were never set: ratio 0.25
C21_Constructed ==
  /\ fn = "process"
  /\ \A k \in DOMAIN heap :
       /\ heap[k].kind = "Compressor"
       /\ heap[k].smoothRatio.targetValue = K.c0_25
       /\ heap[k].smoothRatio.currentValue = K.c0_25

\* a process call after updateFromControls that still ran with a ratio below 1
C21_BelowOneUpdated ==
  /\ fn = "process"
  /\ \A k \in DOMAIN heap :
       /\ heap[k].kind = "Compressor"
       /\ FGe(heap[k].smoothRatio.targetValue, F1)
       /\ FLt(heap[k].smoothRatio.currentValue, F1)

(***************************************************************************)
(* C22: LED_1 while bypassed                                                *)
(***************************************************************************)
\* C22: in every state reached through setEffect, updateControls, bypass, process
\* and processBuffer calls, LED_1 is 0 whenever the pedal is bypassed.
C22_BypassedDark == pedal.bypassed => pedal.leds[LED_1] = F0

\* a bypassed pedal with LED_1 lit has had bypass() called on it
C22_DarkUnlessBypassCalled ==
  pedal.bypassed /\ pedal.leds[LED_1] # F0 => hist.bypassCalls > 0

\* bypass(true) on a pedal whose LED_1 was lit by the update before
C22_LitAfterBypass ==
  /\ fn = "bypass" /\ arg = TRUE /\ pedal.bypassed
  /\ pre.pedal.leds[LED_1] # F0 /\ pedal.leds[LED_1] = pre.pedal.leds[LED_1]

(***************************************************************************)
(* C23: the gain reduction cached for the LED                               *)
(***************************************************************************)
\* the gain that the cached gain reduction grDb stands for
C23_GainOf(grDb) == Pow10f(FDiv(FNeg(grDb), K.c20))

\* C23: after every Compressor.process call the cached gainReductionDb is the
\* negation of the gain in dB applied to that sample (the applied gain is the
\* gain of the cached value), and it is 0 when the envelope was below the 0.0001
\* floor, where the gain applied is 1.
C23_CachedReduction ==
  fn = "process" =>
    \A k \in DOMAIN heap :
      heap[k].kind = "Compressor" =>
        /\ hist.probe.gain = C23_GainOf(heap[k].gainReductionDb)
        /\ FLt(heap[k].envelope, K.eps) =>
             hist.probe.gain = F1 /\ FEq(heap[k].gainReductionDb, F0)

\* when the envelope is at or above the floor the cache is that of this sample
C23_CachedWhenComputed ==
  fn = "process" =>
    \A k \in DOMAIN heap :
      heap[k].kind = "Compressor" /\ FGe(heap[k].envelope, K.eps) =>
        hist.probe.gain = C23_GainOf(heap[k].gainReductionDb)

\* after two loud samples that were reduced, the sample of silence at which the
\* envelope falls below the floor: gain 1, and the cache is 0
C23_Witness ==
  /\ fn = "process" /\ hist.session = "CompressorMeter" /\ hist.phase >= 3
  /\ \A k \in DOMAIN heap :
       /\ FGe(pre.heap[k].envelope, K.eps) /\ FLt(heap[k].envelope, K.eps)
       /\ hist.probe.gain = F1 /\ FEq(heap[k].gainReductionDb, F0)

\* a sample that was reduced: the gain is below 1 and the cache above 0 dB
C23_Reduced ==
  /\ fn = "process"
  /\ \A k \in DOMAIN heap :
       /\ heap[k].kind = "Compressor" /\ FGe(heap[k].smoothRatio.currentValue, F1)
       /\ FLt(hist.probe.gain, F1) /\ FGt(heap[k].gainReductionDb, F1)

\* a sample passed at gain 1 under the floor while the cache still holds the
\* reduction of an earlier, loud sample: never reached, the envelope falls by at
\* most a half per sample and is cached as 0 on its way down
C23_StaleUnderFloor ==
  /\ fn = "process"
  /\ \A k \in DOMAIN heap :
       /\ heap[k].kind = "Compressor" /\ FLt(heap[k].envelope, K.eps)
       /\ FGe(heap[k].smoothRatio.currentValue, F1)
       /\ hist.probe.gain = F1
       /\ FGt(heap[k].gainReductionDb, F1)
       /\ heap[k].gainReductionDb = pre.heap[k].gainReductionDb

(***************************************************************************)
(* C24: the amplitude of the Tremolo in classic and in harmonic mode        *)
(***************************************************************************)
\* the LFO value of the process call made last on the Tremolo k: getLFO at the
\* phase before the call with the shape the call ran with
C24_Lfo(k) == Tremolo_getLFO(pre.heap[k], heap[k].smoothShape.currentValue)

\* C24: in classic mode the amplitude swings to both sides of unity, below 1.0
\* on the positive half of the LFO and above 1.0 on the negative half (the depth
\* being above 0); in harmonic mode it stays in [1 - depth, 1].
C24_ModesDiffer ==
  fn = "process" =>
    \A k \in DOMAIN heap :
      heap[k].kind = "Tremolo" =>
        /\ heap[k].mode = 0 /\ FGt(heap[k].smoothDepth.currentValue, F0) =>
             /\ FGt(C24_Lfo(k), F0) => FLt(hist.probe.amplitude, F1)
             /\ FLt(C24_Lfo(k), F0) => FGt(hist.probe.amplitude, F1)
        /\ heap[k].mode = 1 =>
             /\ FGe(hist.probe.amplitude, FSub(F1, heap[k].smoothDepth.currentValue))
             /\ FLe(hist.probe.amplitude, F1)

\* what the two modes do: both stay in [1 - depth, 1], and on the same state the
\* classic amplitude is the harmonic one up to the rounding of the product
C24_BothAttenuate ==
  fn = "process" =>
    \A k \in DOMAIN heap :
      heap[k].kind = "Tremolo" /\ heap[k].mode \in {0, 1} =>
        /\ FGe(hist.probe.amplitude, FSub(F1, heap[k].smoothDepth.currentValue))
        /\ FLe(hist.probe.amplitude, F1)
        /\ FLe(FAbs(FSub(Tremolo_process([pre.heap[k] EXCEPT !.mode = 1 - @],
                                         arg[2]).amplitude,
                         hist.probe.amplitude)),
               Dec(1, 1000000))

\* classic mode on the negative half of the LFO, at a depth above 0: the claim
\* has the amplitude above 1.0, the code leaves it at or below 1.0
C24_ClassicNegativeHalf ==
  /\ fn = "process"
  /\ \A k \in DOMAIN heap :
       /\ heap[k].kind = "Tremolo" /\ heap[k].mode = 0
       /\ FGt(heap[k].smoothDepth.currentValue, F0)
       /\ FLt(C24_Lfo(k), F0)
       /\ FLe(hist.probe.amplitude, F1)

(***************************************************************************)
(* C25: the effect installed by setEffect                                   *)
(***************************************************************************)
\* C25: after setEffect(effect) with an effect the installed effect is reset:
\* its buffers and filter state are those reset() leaves, so no process call on
\* it returns a tail of its earlier use.
C25_ResetOnSwap ==
  fn = "setEffect" /\ arg # "nullptr" => heap[arg] = HothouseEffect_reset(heap[arg])

\* setEffect changes currentEffect and nothing else
C25_PointerOnly ==
  fn = "setEffect" =>
    heap = pre.heap /\ pedal = [pre.pedal EXCEPT !.currentEffect = arg]

\* the Delay swapped out after a sample was played through it and swapped in
\* again: its line still holds the sample
C25_SwappedInUsed ==
  /\ fn = "setEffect" /\ arg = "Delay" /\ pre.pedal.currentEffect = "Tremolo"
  /\ heap["Delay"] # HothouseEffect_reset(heap["Delay"])

\* the first sample after a setEffect is silence, and the pedal returns the
\* echo of the sample played before the swap
C25_StaleTail ==
  /\ fn = "process" /\ hist.prev = "setEffect" /\ arg = F0 /\ ~pedal.bypassed
  /\ pedal.currentEffect = "Delay" /\ ~FEq(res, F0)

(***************************************************************************)
(* C26: one step of every smoother per sample                               *)
(***************************************************************************)
\* the ParameterSmoother members of the effect e
C26_Smoothers(e) == DOMAIN e \cap C10_SmootherFields

\* C26: in each of the eight effects a process(sample) call leaves every
\* smoother of the effect as one process() call on it leaves it, and
\* updateFromControls, getLedState and reset leave the current value and the
\* coefficient of every smoother as they were (getLedState and reset the whole
\* smoother).
C26_OneStepPerSample ==
  fn \in {"process", "updateFromControls", "getLedState", "reset"} =>
    \A n \in C26_Smoothers(heap[arg[1]]) :
      CASE fn = "process" ->
             heap[arg[1]][n] = ParameterSmoother_process(pre.heap[arg[1]][n])
        [] fn = "updateFromControls" ->
             /\ heap[arg[1]][n].currentValue = pre.heap[arg[1]][n].currentValue
             /\ heap[arg[1]][n].coefficient = pre.heap[arg[1]][n].coefficient
        [] OTHER -> heap[arg[1]][n] = pre.heap[arg[1]][n]

\* a process call on an effect all of whose smoothers were on their way to new
\* targets: every one of them moved, and a second step would have moved it again
C26_Witness ==
  /\ fn = "process" /\ C26_Smoothers(heap[arg[1]]) # {}
  /\ \A n \in C26_Smoothers(heap[arg[1]]) :
       /\ heap[arg[1]][n].currentValue # pre.heap[arg[1]][n].currentValue
       /\ ParameterSmoother_process(heap[arg[1]][n]) # heap[arg[1]][n]

\* getLedState was called on a Tremolo whose LFO had advanced
C26_LedRead ==
  /\ fn = "getLedState" /\ arg[1] = "Tremolo" /\ res # F1
  /\ heap["Tremolo"].phase # F0
  /\ C26_Smoothers(heap[arg[1]]) = {TremoloSmoothers[i] : i \in DOMAIN TremoloSmoothers}

\* an effect without what updateFromControls may set: the smoothers keep their
\* current value and coefficient, the mode selectors are left out
C27_Running(e) ==
  [n \in DOMAIN e \ C10_ModeFields |->
     IF n \in C10_SmootherFields
     THEN [currentValue |-> e[n].currentValue, coefficient |-> e[n].coefficient]
     ELSE e[n]]

\* C27: while the pedal is bypassed or has no effect, process and processBuffer
\* return their input and leave every effect as it is, and whatever else is
\* called meanwhile, each effect's smoother current values, buffers, cursors,
\* filter state, LFO phase and envelope are those it had when the pedal began to
\* pass through; they still are at the call that ends the bypass.
C27_FrozenWhileBypassed ==
  /\ fn \in {"process", "processBuffer"} /\ PassesThrough(pre.pedal) =>
       /\ heap = pre.heap /\ pedal = pre.pedal
       /\ fn = "process" => res = arg
       /\ fn = "processBuffer" =>
            \A i \in 0 .. arg[3] - 1 : res[arg[2] + i] = CallerMemory[arg[1] + i]
  /\ PassesThrough(pedal) \/ (calls > 0 /\ PassesThrough(pre.pedal)
                                /\ fn \in {"updateControls", "bypass", "setEffect"}) =>
       \A k \in DOMAIN heap : C27_Running(heap[k]) = C27_Running(hist.frozen[k])

\* a sample went through a bypassed pedal whose effect has run before and still
\* holds what it held
C27_Witness ==
  /\ fn = "process" /\ pre.pedal.bypassed /\ pedal.currentEffect # "nullptr"
  /\ arg # F0
  /\ \E sr \in {10, 48000} :
       C27_Running(heap[pedal.currentEffect])
         # C27_Running(HothouseEffect_new(pedal.currentEffect, sr))
  /\ \A sr \in {10, 48000} :
       C27_Running(heap[pedal.currentEffect])
         # C27_Running(HothouseEffect_new(pedal.currentEffect, sr))

\* the footswitch ended a bypass during which samples went through, and the
\* effect resumes from the state it had
C27_Resumed ==
  /\ fn = "updateControls" /\ pre.pedal.bypassed /\ ~pedal.bypassed
  /\ pedal.currentEffect # "nullptr"
  /\ hist.prev \in {"process", "processBuffer"}
  /\ C27_Running(heap[pedal.currentEffect]) = C27_Running(hist.frozen[pedal.currentEffect])
  /\ \A sr \in {10, 48000} :
       C27_Running(heap[pedal.currentEffect])
         # C27_Running(HothouseEffect_new(pedal.currentEffect, sr))

\* envDb and threshDb of computeGain for the envelope and threshold of e
C28_EnvDb(e) == FMul(K.c20, Log10f(e.envelope))

C28_ThreshDb(e) == FMul(K.c20, Log10f(FAdd(e.smoothThreshold.currentValue, K.eps)))

\* the envelope of e lies in the knee region around its threshold
C28_InKnee(e, envDb, threshDb, halfKnee) ==
  /\ ~FLt(e.envelope, K.eps)
  /\ ~FLt(envDb, FSub(threshDb, halfKnee))
  /\ ~FGt(envDb, FAdd(threshDb, halfKnee))

\* C28: in every state of a Compressor kneeMode is 0, 1 or 2, and kneeMode is 0
\* (hard knee) or kneeWidth is above 0; an updateFromControls whose toggle is in
\* no known position leaves both as they were. So computeGain in a soft-knee mode
\* divides by twice a knee width above 0.
C28_KneeWidthPositive ==
  /\ heap["Compressor"].kneeMode \in {0, 1, 2}
  /\ heap["Compressor"].kneeMode = 0 \/ FGt(heap["Compressor"].kneeWidth, F0)
  /\ (fn = "updateFromControls"
        /\ arg[2].toggles[1] \notin {"TOGGLESWITCH_UP", "TOGGLESWITCH_MIDDLE",
                                     "TOGGLESWITCH_DOWN"}) =>
       /\ heap["Compressor"].kneeMode = pre.heap["Compressor"].kneeMode
       /\ heap["Compressor"].kneeWidth = pre.heap["Compressor"].kneeWidth
  /\ (fn = "process" /\ pre.heap["Compressor"].kneeMode # 0) =>
       ~FEq(FMul(K.two, pre.heap["Compressor"].kneeWidth), F0)

\* a soft-knee Compressor whose last controls had the toggle in no known
\* position (the only snapshot with knob 6 at 0.75) processed a sample that put
\* the envelope inside the knee region, where the quadratic is evaluated
C28_Witness ==
  /\ fn = "process"
  /\ pre.heap["Compressor"].kneeMode # 0
  /\ heap["Compressor"].smoothMix.targetValue = Dec(3, 4)
  /\ ~FLt(heap["Compressor"].envelope, K.eps)
  /\ C28_InKnee(heap["Compressor"], C28_EnvDb(heap["Compressor"]),
                C28_ThreshDb(heap["Compressor"]),
                FDiv(heap["Compressor"].kneeWidth, K.two))
  /\ ~FEq(heap["Compressor"].gainReductionDb, F0)

\* the toggle was moved to UP and then read in no known position: hard knee with
\* width 0
C28_UnknownAfterUp ==
  /\ fn = "updateFromControls"
  /\ arg[2].toggles[1] = "TOGGLESWITCH_UNKNOWN"
  /\ heap["Compressor"].kneeMode = 0
  /\ FEq(heap["Compressor"].kneeWidth, F0)

\* C29: the soft-clip function of Overdrive and Distortion does not decrease as
\* its pre-scaled input grows: of two calls, the one with the larger pre-scaled
\* input returns at least as much as the other, also across the boundaries at
\* -1 and 1.
C29_Monotone ==
  calls >= 2 =>
    /\ FLe(hist.lastX, hist.x) => FLe(hist.lastOut, res)
    /\ FLe(hist.x, hist.lastX) => FLe(res, hist.lastOut)

\* what holds on the inputs drawn: the function does not decrease between two
\* inputs that lie both within [-1, 1] or both beyond the same boundary, and it
\* stays within the value of the curve at 1, 28/36
C29_MonotoneInside ==
  /\ (calls >= 2 /\ FLe(hist.lastX, hist.x)
        /\ (FGt(hist.lastX, F1) <=> FGt(hist.x, F1))
        /\ (FLt(hist.lastX, FNeg(F1)) <=> FLt(hist.x, FNeg(F1)))) =>
       FLe(hist.lastOut, res)
  /\ calls >= 1 => FLe(FAbs(res), SoftClipCurve(F1))

\* Overdrive::softClip returned more for the pre-scaled input 1 than for a
\* larger one
C29_DropAtOne ==
  /\ calls >= 2 /\ fn = "Overdrive::softClip"
  /\ hist.lastX = F1 /\ FGt(hist.x, F1)
  /\ hist.lastOut = SoftClipCurve_rational(F1, F1) /\ res = K.tanh1
  /\ FGt(hist.lastOut, res)

\* the same on the negative side, for Distortion::softClip one step beyond -1
C29_RiseAtMinusOne ==
  /\ calls >= 2 /\ fn = "Distortion::softClip"
  /\ hist.lastX = FNeg(F1) /\ hist.x = FNeg(Dec(8388609, 8388608))
  /\ FGt(res, hist.lastOut)
=============================================================================
